---- MODULE Spec2Model ----
(***************************************************************************)
(* A model of the sieswi CSV query engine: the sidecar block index         *)
(* (internal/sidx), the WHERE evaluator (internal/sqlparser) and the       *)
(* execution strategies of internal/engine (sequential, indexed, stdin and *)
(* the parallel reader / worker / dispatcher pipeline).                    *)
(*                                                                         *)
(* Strings are sequences of byte codes, so that lexicographic order,       *)
(* strconv.ParseFloat and strings.ToLower are computed, not assumed.       *)
(***************************************************************************)
EXTENDS Integers, Sequences, FiniteSets, TLC

VARIABLES
    file,        \* the data lines of the source CSV (after the header line)
    b,           \* the sidx.Builder object
    index,       \* the Index returned by the last BuildFromFile, or NoIndex
    pruneQ,      \* the last CanPruneBlock question asked and its answer
    sidecar,     \* the <source>.sidx file next to the source
    fileMeta,    \* size and mtime of the source as os.Stat reports them
    query,       \* the sqlparser.Query of the last Execute
    env,         \* the environment of the last Execute
    result,      \* what the last Execute wrote and returned
    par,         \* the goroutines and channels of a running ParallelExecute
    hdr,         \* the fields of the header line of the source CSV
    stream       \* a running Execute: its position, its csv.Writer, its output

vars == <<file, b, index, pruneQ, sidecar, fileMeta, query, env, result, par, hdr, stream>>

----------------------------------------------------------------------------
(* Bounds of the model *)

\* at most this many lines after the header in a source file
MaxRows == 3
\* the builders are created with block sizes 1..MaxBlockSize
MaxBlockSize == 2
\* at most this many lines after the header in a file that is queried
MaxExecRows == 2
\* queries have no LIMIT or LIMIT 0..MaxLimit
MaxLimit == 2

----------------------------------------------------------------------------
(* Byte strings *)

Min2(x, y) == IF x < y THEN x ELSE y

\* "" , "2", "10", "a": the field values of the model
EmptyStr == << >>
Str2 == <<50>>
Str10 == <<49, 48>>
StrA == <<97>>

\* the header line of every source of the model: "id,v"
ColId == <<105, 100>>
ColV == <<118>>
Header == <<ColId, ColV>>

IsDigit(c) == c >= 48 /\ c <= 57

\* Go's string comparison (<, >, strings.Compare): bytewise lexicographic
RECURSIVE StrCmp(_, _)
StrCmp(x, y) ==
    IF x = << >> /\ y = << >> THEN 0
    ELSE IF x = << >> THEN -1
    ELSE IF y = << >> THEN 1
    ELSE IF Head(x) < Head(y) THEN -1
    ELSE IF Head(x) > Head(y) THEN 1
    ELSE StrCmp(Tail(x), Tail(y))

ToLowerByte(c) == IF c >= 65 /\ c <= 90 THEN c + 32 ELSE c

\* strings.ToLower on ASCII
ToLower(s) == [i \in 1..Len(s) |-> ToLowerByte(s[i])]

\* strings.TrimSpace on ASCII spaces
RECURSIVE TrimLeft(_)
TrimLeft(s) == IF s # << >> /\ Head(s) = 32 THEN TrimLeft(Tail(s)) ELSE s

RECURSIVE TrimRight(_)
TrimRight(s) ==
    IF s # << >> /\ s[Len(s)] = 32 THEN TrimRight(SubSeq(s, 1, Len(s) - 1)) ELSE s

TrimSpace(s) == TrimRight(TrimLeft(s))

RECURSIVE Pow10(_)
Pow10(n) == IF n = 0 THEN 1 ELSE 10 * Pow10(n - 1)

RECURSIVE DigitsValue(_)
DigitsValue(s) ==
    IF s = << >> THEN 0 ELSE 10 * DigitsValue(SubSeq(s, 1, Len(s) - 1)) + (s[Len(s)] - 48)

AllDigits(s) == \A i \in 1..Len(s) : IsDigit(s[i])

DotPositions(s) == {i \in 1..Len(s) : s[i] = 46}

\* strconv.ParseFloat(s, 64) on unsigned decimal literals: digits with at most
\* one '.', at least one digit.  num is mant / 10^scale.
ParseFloat(s) ==
    LET dots == DotPositions(s) IN
    IF Cardinality(dots) = 0
    THEN IF s # << >> /\ AllDigits(s)
         THEN [ok |-> TRUE, mant |-> DigitsValue(s), scale |-> 0]
         ELSE [ok |-> FALSE, mant |-> 0, scale |-> 0]
    ELSE IF Cardinality(dots) = 1
    THEN LET d == CHOOSE i \in dots : TRUE
             ip == SubSeq(s, 1, d - 1)
             fp == SubSeq(s, d + 1, Len(s))
         IN IF AllDigits(ip) /\ AllDigits(fp) /\ Len(ip) + Len(fp) > 0
            THEN [ok |-> TRUE, mant |-> DigitsValue(ip \o fp), scale |-> Len(fp)]
            ELSE [ok |-> FALSE, mant |-> 0, scale |-> 0]
    ELSE [ok |-> FALSE, mant |-> 0, scale |-> 0]

\* float64 comparison of two parsed numbers: -1, 0 or 1
NumCmp(x, y) ==
    LET l == x.mant * Pow10(y.scale)
        r == y.mant * Pow10(x.scale)
    IN IF l < r THEN -1 ELSE IF l > r THEN 1 ELSE 0

----------------------------------------------------------------------------
(* The source file.  A line is its sequence of fields; << >> is a blank    *)
(* line.  No field of the model needs quoting and lines end in "\n".       *)

RECURSIVE SumLen(_)
SumLen(fields) == IF fields = << >> THEN 0 ELSE Len(Head(fields)) + SumLen(Tail(fields))

\* number of bytes of the raw line, its "\n" included
RawLen(line) == IF line = << >> THEN 1 ELSE SumLen(line) + (Len(line) - 1) + 1

HeaderLen == RawLen(Header)

RECURSIVE OffsetOfLine(_, _)
\* byte offset at which line i (1-based) of f starts; i = Len(f) + 1 is EOF
OffsetOfLine(f, i) == IF i = 1 THEN HeaderLen ELSE OffsetOfLine(f, i - 1) + RawLen(f[i - 1])

FileSize(f) == OffsetOfLine(f, Len(f) + 1)

\* the byte code of the decimal digit n
DigitStr(n) == <<48 + n>>

FieldValues == {EmptyStr, Str2, Str10, StrA}

\* the line at position i: blank, a short record (id only) or id and v
LinesAt(i) == {<< >>, <<DigitStr(i)>>} \cup {<<DigitStr(i), v>> : v \in FieldValues}

RECURSIVE FilesOfLen(_)
FilesOfLen(n) ==
    IF n = 0 THEN {<< >>}
    ELSE {Append(f, l) : f \in FilesOfLen(n - 1), l \in LinesAt(n)}

Files == UNION {FilesOfLen(n) : n \in 0..MaxRows}

----------------------------------------------------------------------------
(* internal/sidx: the index format and the Builder *)

Version == 3
ColumnTypeString == 0
ColumnTypeNumeric == 1

NoIndex == [none |-> TRUE]

\* NewBuilder(blockSize): every other field has Go's zero value
NewBuilder(blockSize) ==
    [blockSize |-> blockSize, currentRow |-> 0, blocks |-> << >>,
     blockStartRow |-> 0, blockStartOffset |-> 0, lastRowEndOffset |-> 0,
     columnMins |-> << >>, columnMaxs |-> << >>, columnEmptyCounts |-> << >>,
     columnTypes |-> << >>, headers |-> << >>,
     typeInferenceActive |-> FALSE, skipTypeInference |-> FALSE,
     numericCounts |-> << >>, nonEmptyCounts |-> << >>, panicked |-> FALSE]

SetSkipTypeInference(bld, skip) == [bld EXCEPT !.skipTypeInference = skip]

\* finalizeTypeInference typing a column numeric when half of its non-empty
\* values parse
finalizeTypeInferenceHalf(bld) ==
    [bld EXCEPT !.columnTypes =
        [i \in 1..Len(bld.columnTypes) |->
            IF bld.nonEmptyCounts[i] > 0
               /\ bld.numericCounts[i] * 2 >= bld.nonEmptyCounts[i]
            THEN ColumnTypeNumeric ELSE ColumnTypeString]]

finalizeTypeInference(bld) ==
    [bld EXCEPT !.columnTypes =
        [i \in 1..Len(bld.columnTypes) |->
            IF bld.nonEmptyCounts[i] > 0
               /\ bld.numericCounts[i] * 5 >= bld.nonEmptyCounts[i] * 4
            THEN ColumnTypeNumeric ELSE ColumnTypeString]]

flushBlock(bld) ==
    IF bld.currentRow = bld.blockStartRow THEN bld
    ELSE IF \/ bld.currentRow <= bld.blockStartRow
            \/ bld.lastRowEndOffset < bld.blockStartOffset
            \/ \E i \in 1..Len(bld.headers) :
                  /\ bld.columnMins[i] # EmptyStr
                  /\ bld.columnMaxs[i] # EmptyStr
                  /\ StrCmp(bld.columnMins[i], bld.columnMaxs[i]) > 0
    THEN [bld EXCEPT !.panicked = TRUE]
    ELSE LET cols == [i \in 1..Len(bld.headers) |->
                        [Min |-> bld.columnMins[i], Max |-> bld.columnMaxs[i],
                         EmptyCount |-> bld.columnEmptyCounts[i]]]
             block == [StartRow |-> bld.blockStartRow, EndRow |-> bld.currentRow,
                       StartOffset |-> bld.blockStartOffset,
                       EndOffset |-> bld.lastRowEndOffset, Columns |-> cols]
         IN [bld EXCEPT !.blocks = Append(bld.blocks, block),
                        !.blockStartRow = bld.currentRow,
                        !.blockStartOffset = bld.lastRowEndOffset,
                        !.columnMins = [i \in 1..Len(bld.columnMins) |-> EmptyStr],
                        !.columnMaxs = [i \in 1..Len(bld.columnMins) |-> EmptyStr],
                        !.columnEmptyCounts = [i \in 1..Len(bld.columnMins) |-> 0]]

\* the statistics update of one record (builder.go, the loop over columns)
updateStats(bld, record) ==
    LET seen(i) == i <= Len(record)
        nonEmpty(i) == seen(i) /\ record[i] # EmptyStr
    IN [bld EXCEPT
        !.columnEmptyCounts = [i \in 1..Len(bld.headers) |->
            IF seen(i) /\ record[i] = EmptyStr
            THEN bld.columnEmptyCounts[i] + 1 ELSE bld.columnEmptyCounts[i]],
        !.columnMins = [i \in 1..Len(bld.headers) |->
            IF nonEmpty(i) /\ (bld.columnMins[i] = EmptyStr
                               \/ StrCmp(record[i], bld.columnMins[i]) < 0)
            THEN record[i] ELSE bld.columnMins[i]],
        !.columnMaxs = [i \in 1..Len(bld.headers) |->
            IF nonEmpty(i) /\ (bld.columnMaxs[i] = EmptyStr
                               \/ StrCmp(record[i], bld.columnMaxs[i]) > 0)
            THEN record[i] ELSE bld.columnMaxs[i]],
        !.nonEmptyCounts =
            IF bld.typeInferenceActive
            THEN [i \in 1..Len(bld.headers) |->
                    IF nonEmpty(i) THEN bld.nonEmptyCounts[i] + 1
                    ELSE bld.nonEmptyCounts[i]]
            ELSE bld.nonEmptyCounts,
        !.numericCounts =
            IF bld.typeInferenceActive
            THEN [i \in 1..Len(bld.headers) |->
                    IF nonEmpty(i) /\ ParseFloat(record[i]).ok
                    THEN bld.numericCounts[i] + 1 ELSE bld.numericCounts[i]]
            ELSE bld.numericCounts]

\* one iteration of the row loop of BuildFromFile on a non-blank line
buildRow(st, line) ==
    LET rowStart == st.offset
        b0 == IF st.rowInBlock = 0
              THEN [st.bld EXCEPT !.blockStartOffset = rowStart] ELSE st.bld
        b1 == updateStats(b0, line)
        off == st.offset + RawLen(line)
        b2 == [b1 EXCEPT !.currentRow = b1.currentRow + 1, !.lastRowEndOffset = off]
        rib == st.rowInBlock + 1
    IN IF rib >= b2.blockSize
       THEN LET b3 == flushBlock(b2)
                b4 == IF b3.typeInferenceActive
                      THEN [finalizeTypeInference(b3) EXCEPT !.typeInferenceActive = FALSE]
                      ELSE b3
            IN [bld |-> b4, offset |-> off, rowInBlock |-> 0]
       ELSE [bld |-> b2, offset |-> off, rowInBlock |-> rib]

RECURSIVE buildLoop(_, _, _)
buildLoop(st, f, i) ==
    IF i > Len(f) \/ st.bld.panicked THEN st
    ELSE IF f[i] = << >>
    THEN buildLoop([st EXCEPT !.offset = st.offset + RawLen(f[i])], f, i + 1)
    ELSE buildLoop(buildRow(st, f[i]), f, i + 1)

\* the Builder after BuildFromFile(csvPath) on a file with header record h
\* and data lines f
BuildFromFileOf(bld, h, f) ==
    LET numCols == Len(h)
        zeros == [i \in 1..numCols |-> 0]
        b0 == [bld EXCEPT
                 !.headers = h,
                 !.columnMins = [i \in 1..numCols |-> EmptyStr],
                 !.columnMaxs = [i \in 1..numCols |-> EmptyStr],
                 !.columnEmptyCounts = zeros,
                 !.columnTypes = [i \in 1..numCols |-> ColumnTypeString],
                 !.typeInferenceActive =
                     IF ~bld.skipTypeInference THEN TRUE ELSE bld.typeInferenceActive,
                 !.numericCounts = IF ~bld.skipTypeInference THEN zeros ELSE bld.numericCounts,
                 !.nonEmptyCounts = IF ~bld.skipTypeInference THEN zeros ELSE bld.nonEmptyCounts,
                 !.blockStartRow = 0,
                 !.blockStartOffset = RawLen(h),
                 !.lastRowEndOffset = RawLen(h)]
        st == buildLoop([bld |-> b0, offset |-> RawLen(h), rowInBlock |-> 0], f, 1)
        b1 == IF st.bld.currentRow > st.bld.blockStartRow THEN flushBlock(st.bld) ELSE st.bld
    IN IF b1.typeInferenceActive
       THEN [finalizeTypeInference(b1) EXCEPT !.typeInferenceActive = FALSE]
       ELSE IF b1.skipTypeInference
       THEN [b1 EXCEPT !.columnTypes = [i \in 1..Len(b1.columnTypes) |-> ColumnTypeString]]
       ELSE b1

\* the Builder after BuildFromFile(csvPath) on the file f under the header id,v
BuildFromFile(bld, f) == BuildFromFileOf(bld, Header, f)

\* the Index that BuildFromFile returns from the Builder's final state
\* the zero value of Header.Magic, a [4]byte the Builder never sets
ZeroMagic == <<0, 0, 0, 0>>

BuiltIndex(bld, meta) ==
    [Header |-> [Magic |-> ZeroMagic, Version |-> Version, BlockSize |-> bld.blockSize,
                 NumBlocks |-> Len(bld.blocks),
                 FileSize |-> meta.size, FileMtime |-> meta.mtime,
                 Columns |-> [i \in 1..Len(bld.headers) |->
                                [Name |-> bld.headers[i], Type |-> bld.columnTypes[i]]]],
     Blocks |-> bld.blocks]

----------------------------------------------------------------------------
(* internal/sqlparser: the predicate tree and the WHERE evaluator *)

Operators == {"=", "!=", ">", ">=", "<", "<="}

\* parseComparison: the literal is numeric iff ParseFloat accepts it
Comparison(column, operator, value) ==
    [kind |-> "cmp", Column |-> column, Operator |-> operator, Value |-> value,
     IsNumeric |-> ParseFloat(value).ok, NumericValue |-> ParseFloat(value)]

BinaryExpr(left, operator, right) ==
    [kind |-> "bin", Left |-> left, Operator |-> operator, Right |-> right]

UnaryExpr(operator, expr) == [kind |-> "not", Operator |-> operator, Expr |-> expr]

NoWhere == [kind |-> "nil"]

\* the switch on the operator shared by both halves of Comparison.Compare
cmpHolds(operator, cmp) ==
    CASE operator = "="  -> cmp = 0
      [] operator = "!=" -> cmp # 0
      [] operator = ">"  -> cmp > 0
      [] operator = ">=" -> cmp >= 0
      [] operator = "<"  -> cmp < 0
      [] operator = "<=" -> cmp <= 0
      [] OTHER -> FALSE

\* Comparison.Compare(candidate)
Compare(c, candidate) ==
    IF c.IsNumeric
    THEN LET candidateNum == ParseFloat(candidate)
         IN IF ~candidateNum.ok THEN FALSE
            ELSE cmpHolds(c.Operator, NumCmp(candidateNum, c.NumericValue))
    ELSE cmpHolds(c.Operator, StrCmp(candidate, c.Value))

\* EvaluateNormalized(expr, row): row maps normalized column names to values
RECURSIVE EvaluateNormalized(_, _)
EvaluateNormalized(e, row) ==
    CASE e.kind = "bin" ->
            IF e.Operator = "AND"
            THEN IF ~EvaluateNormalized(e.Left, row) THEN FALSE
                 ELSE EvaluateNormalized(e.Right, row)
            ELSE IF e.Operator = "OR"
            THEN IF EvaluateNormalized(e.Left, row) THEN TRUE
                 ELSE EvaluateNormalized(e.Right, row)
            ELSE FALSE
      [] e.kind = "not" ->
            IF e.Operator = "NOT" THEN ~EvaluateNormalized(e.Expr, row) ELSE FALSE
      [] e.kind = "cmp" ->
            LET normalized == ToLower(TrimSpace(e.Column))
            IN IF normalized \notin DOMAIN row THEN FALSE
               ELSE Compare(e, row[normalized])
      [] OTHER -> FALSE

\* Evaluate(expr, row): the column name is looked up as written
RECURSIVE Evaluate(_, _)
Evaluate(e, row) ==
    CASE e.kind = "bin" ->
            IF e.Operator = "AND"
            THEN IF ~Evaluate(e.Left, row) THEN FALSE ELSE Evaluate(e.Right, row)
            ELSE IF e.Operator = "OR"
            THEN IF Evaluate(e.Left, row) THEN TRUE ELSE Evaluate(e.Right, row)
            ELSE FALSE
      [] e.kind = "not" ->
            IF e.Operator = "NOT" THEN ~Evaluate(e.Expr, row) ELSE FALSE
      [] e.kind = "cmp" ->
            IF e.Column \notin DOMAIN row THEN FALSE ELSE Compare(e, row[e.Column])
      [] OTHER -> FALSE

----------------------------------------------------------------------------
(* Block pruning *)

\* the type-aware compare closure of CanPruneBlock
pruneCompare(colType, x, y) ==
    LET xNum == ParseFloat(x)
        yNum == ParseFloat(y)
    IN IF colType = ColumnTypeNumeric /\ xNum.ok /\ yNum.ok
       THEN NumCmp(xNum, yNum)
       ELSE StrCmp(x, y)

\* the first dictionary entry whose lower-cased name is colName, 0 if none
dictIndex(idx, colName) ==
    LET hits == {i \in 1..Len(idx.Header.Columns) :
                    ToLower(idx.Header.Columns[i].Name) = colName}
    IN IF hits = {} THEN 0 ELSE CHOOSE i \in hits : \A j \in hits : i <= j

\* CanPruneBlock pruning '>' only when the value is above the block's max
CanPruneBlockAbove(idx, block, colName0, operator, value) ==
    LET colName == ToLower(colName0)
        colIdx == dictIndex(idx, colName)
    IN IF colIdx = 0 \/ colIdx > Len(block.Columns) THEN FALSE
       ELSE LET colType == idx.Header.Columns[colIdx].Type
                stats == block.Columns[colIdx]
                min == stats.Min
                max == stats.Max
                blockSize == block.EndRow - block.StartRow
            IN IF min = EmptyStr /\ max = EmptyStr
               THEN /\ blockSize > 0
                    /\ stats.EmptyCount > 0
                    /\ stats.EmptyCount = blockSize
                    /\ operator = "="
                    /\ value # EmptyStr
               ELSE CASE operator = "=" ->
                            \/ pruneCompare(colType, value, min) < 0
                            \/ pruneCompare(colType, value, max) > 0
                      [] operator = "!=" ->
                            /\ pruneCompare(colType, min, max) = 0
                            /\ pruneCompare(colType, min, value) = 0
                      [] operator = ">" -> pruneCompare(colType, value, max) > 0
                      [] operator = ">=" -> pruneCompare(colType, value, max) > 0
                      [] operator = "<" -> pruneCompare(colType, value, min) <= 0
                      [] operator = "<=" -> pruneCompare(colType, value, min) < 0
                      [] OTHER -> FALSE

\* sidx.CanPruneBlock(index, block, colName, operator, value)
CanPruneBlock(idx, block, colName0, operator, value) ==
    LET colName == ToLower(colName0)
        colIdx == dictIndex(idx, colName)
    IN IF colIdx = 0 \/ colIdx > Len(block.Columns) THEN FALSE
       ELSE LET colType == idx.Header.Columns[colIdx].Type
                stats == block.Columns[colIdx]
                min == stats.Min
                max == stats.Max
                blockSize == block.EndRow - block.StartRow
            IN IF min = EmptyStr /\ max = EmptyStr
               THEN /\ blockSize > 0
                    /\ stats.EmptyCount > 0
                    /\ stats.EmptyCount = blockSize
                    /\ operator = "="
                    /\ value # EmptyStr
               ELSE CASE operator = "=" ->
                            \/ pruneCompare(colType, value, min) < 0
                            \/ pruneCompare(colType, value, max) > 0
                      [] operator = "!=" ->
                            /\ pruneCompare(colType, min, max) = 0
                            /\ pruneCompare(colType, min, value) = 0
                      [] operator = ">" -> pruneCompare(colType, value, max) >= 0
                      [] operator = ">=" -> pruneCompare(colType, value, max) > 0
                      [] operator = "<" -> pruneCompare(colType, value, min) <= 0
                      [] operator = "<=" -> pruneCompare(colType, value, min) < 0
                      [] OTHER -> FALSE

\* engine.canPruneBlockExpr(index, block, expr)
RECURSIVE canPruneBlockExpr(_, _, _)
canPruneBlockExpr(idx, block, e) ==
    CASE e.kind = "bin" ->
            IF e.Operator = "AND"
            THEN canPruneBlockExpr(idx, block, e.Left) \/ canPruneBlockExpr(idx, block, e.Right)
            ELSE IF e.Operator = "OR"
            THEN canPruneBlockExpr(idx, block, e.Left) /\ canPruneBlockExpr(idx, block, e.Right)
            ELSE FALSE
      [] e.kind = "not" -> FALSE
      [] e.kind = "cmp" -> CanPruneBlock(idx, block, e.Column, e.Operator, e.Value)
      [] OTHER -> FALSE

----------------------------------------------------------------------------
(* internal/engine: readers, projection and the sequential scanner *)

\* FastCSVReader.Read at line pos: a blank line is one record of one empty
\* field.  [eof, record, pos] with pos the next line to read.
fastRead(f, pos) ==
    IF pos > Len(f) THEN [eof |-> TRUE, record |-> << >>, pos |-> pos]
    ELSE [eof |-> FALSE,
          record |-> IF f[pos] = << >> THEN <<EmptyStr>> ELSE f[pos],
          pos |-> pos + 1]

\* encoding/csv Reader.Read at line pos: blank lines are skipped
RECURSIVE csvRead(_, _)
csvRead(f, pos) ==
    IF pos > Len(f) THEN [eof |-> TRUE, record |-> << >>, pos |-> pos]
    ELSE IF f[pos] = << >> THEN csvRead(f, pos + 1)
    ELSE [eof |-> FALSE, record |-> f[pos], pos |-> pos + 1]

\* file.Seek(offset, io.SeekStart): the line the next read starts at.  Offsets
\* written by the Builder are line starts; any other offset is taken to the
\* next line start.
seekLine(f, offset) ==
    LET at == {i \in 1..(Len(f) + 1) : OffsetOfLine(f, i) >= offset}
    IN IF at = {} THEN Len(f) + 1 ELSE CHOOSE i \in at : \A j \in at : i <= j

normalizedHeaders(header) == [i \in 1..Len(header) |-> ToLower(TrimSpace(header[i]))]

\* normalisedIndex[name]: the last column with that normalized name, 0 if none
normalisedIndex(header, name) ==
    LET hits == {i \in 1..Len(header) : normalizedHeaders(header)[i] = name}
    IN IF hits = {} THEN 0 ELSE CHOOSE i \in hits : \A j \in hits : i >= j

\* resolveProjection(query, header, index): [ok, idxs, names]
resolveProjection(q, header) ==
    IF q.AllColumns
    THEN [ok |-> TRUE, idxs |-> [i \in 1..Len(header) |-> i], names |-> header]
    ELSE LET idxs == [i \in 1..Len(q.Columns) |-> normalisedIndex(header, ToLower(q.Columns[i]))]
         IN IF \E i \in 1..Len(idxs) : idxs[i] = 0
            THEN [ok |-> FALSE, idxs |-> << >>, names |-> << >>]
            ELSE [ok |-> TRUE, idxs |-> idxs,
                  names |-> [i \in 1..Len(idxs) |-> header[idxs[i]]]]

\* project(record, columns)
project(record, columns) ==
    [i \in 1..Len(columns) |->
        IF columns[i] <= Len(record) THEN record[columns[i]] ELSE EmptyStr]

\* validateWhereColumns(expr, index): TRUE iff no error
RECURSIVE validateWhereColumns(_, _)
validateWhereColumns(e, header) ==
    CASE e.kind = "bin" ->
            validateWhereColumns(e.Left, header) /\ validateWhereColumns(e.Right, header)
      [] e.kind = "not" -> validateWhereColumns(e.Expr, header)
      [] e.kind = "cmp" -> normalisedIndex(header, ToLower(e.Column)) # 0
      [] OTHER -> TRUE

\* the rowMap of Execute: only the columns the record has
rowMapSeq(header, record) ==
    LET nh == normalizedHeaders(header)
        present == {i \in 1..Len(nh) : i <= Len(record)}
    IN [n \in {nh[i] : i \in present} |->
            record[CHOOSE i \in present : nh[i] = n /\ \A j \in present : nh[j] = n => j <= i]]

\* pruneBlocks of Execute, as the set of pruned block numbers (0-based)
pruneBlocksOf(idx, q) ==
    IF idx # NoIndex /\ q.Where # NoWhere
    THEN {i \in 0..(Len(idx.Blocks) - 1) : canPruneBlockExpr(idx, idx.Blocks[i + 1], q.Where)}
    ELSE {}

\* nextUnpruned taking the block at from whether it is pruned or not
nextUnprunedNoSkip(pruned, nBlocks, from) ==
    IF from < nBlocks THEN from ELSE nBlocks

\* the first block number >= from that is not pruned; nBlocks if none
nextUnpruned(pruned, nBlocks, from) ==
    LET cand == {i \in from..(nBlocks - 1) : i \notin pruned}
    IN IF cand = {} THEN nBlocks ELSE CHOOSE i \in cand : \A j \in cand : i <= j

\* one iteration of the row loop of Execute: [done, read, st] where
\* st = [pos, currentRow, currentBlockIdx, written, rows], done says the
\* loop is left and read says a record was read
scanStep(f, idx, q, pruned, sel, st) ==
    LET nBlocks == IF idx = NoIndex THEN 0 ELSE Len(idx.Blocks)
        inBlocks == idx # NoIndex /\ st.currentBlockIdx < nBlocks
        cbi1 == IF inBlocks /\ st.currentRow >= idx.Blocks[st.currentBlockIdx + 1].EndRow
                THEN st.currentBlockIdx + 1 ELSE st.currentBlockIdx
        skip == inBlocks /\ cbi1 < nBlocks /\ cbi1 \in pruned
        nxt == nextUnpruned(pruned, nBlocks, cbi1 + 1)
    IN IF skip /\ nxt >= nBlocks THEN [done |-> TRUE, read |-> FALSE, st |-> st]
       ELSE LET st1 == IF skip
                       THEN [st EXCEPT !.pos = seekLine(f, idx.Blocks[nxt + 1].StartOffset),
                                       !.currentBlockIdx = nxt,
                                       !.currentRow = idx.Blocks[nxt + 1].StartRow]
                       ELSE [st EXCEPT !.currentBlockIdx = cbi1]
                rd == IF idx = NoIndex THEN fastRead(f, st1.pos) ELSE csvRead(f, st1.pos)
            IN IF rd.eof THEN [done |-> TRUE, read |-> FALSE, st |-> st1]
               ELSE LET st2 == [st1 EXCEPT !.pos = rd.pos, !.currentRow = st1.currentRow + 1]
                    IN IF q.Where # NoWhere
                          /\ ~EvaluateNormalized(q.Where, rowMapSeq(Header, rd.record))
                       THEN [done |-> FALSE, read |-> TRUE, st |-> st2]
                       ELSE LET st3 == [st2 EXCEPT !.rows = Append(st2.rows, project(rd.record, sel)),
                                                   !.written = st2.written + 1]
                            IN [done |-> q.Limit >= 0 /\ st3.written >= q.Limit,
                                read |-> TRUE, st |-> st3]

\* the row loop of Execute
RECURSIVE scanLoop(_, _, _, _, _, _)
scanLoop(f, idx, q, pruned, sel, st) ==
    LET r == scanStep(f, idx, q, pruned, sel, st)
    IN IF r.done THEN r.st ELSE scanLoop(f, idx, q, pruned, sel, r.st)

\* the state of the row loop of Execute when it is entered: the rows pruned
\* and the position after the seek to the first block that is not pruned
scanStart(f, idx, q) ==
    LET pruned == pruneBlocksOf(idx, q)
        nBlocks == IF idx = NoIndex THEN 0 ELSE Len(idx.Blocks)
        first == nextUnpruned(pruned, nBlocks, 0)
        seeks == idx # NoIndex /\ q.Where # NoWhere /\ first < nBlocks
    IN [pos |-> IF seeks THEN seekLine(f, idx.Blocks[first + 1].StartOffset) ELSE 1,
        currentRow |-> IF first < nBlocks THEN idx.Blocks[first + 1].StartRow ELSE 0,
        currentBlockIdx |-> IF first < nBlocks THEN first ELSE 0,
        written |-> 0, rows |-> << >>]

\* Execute on a file path once the index is loaded (or not) and the parallel
\* scanner was skipped: [err, header, rows]
executeSequential(f, idx, q) ==
    LET proj == resolveProjection(q, Header) IN
    IF ~proj.ok THEN [err |-> "unknown column", header |-> << >>, rows |-> << >>]
    ELSE IF q.Where # NoWhere /\ ~validateWhereColumns(q.Where, Header)
    THEN [err |-> "unknown column", header |-> << >>, rows |-> << >>]
    ELSE [err |-> "nil", header |-> proj.names,
          rows |-> scanLoop(f, idx, q, pruneBlocksOf(idx, q), proj.idxs,
                            scanStart(f, idx, q)).rows]

----------------------------------------------------------------------------
(* executeFromStdin *)

\* colMap[name] of executeFromStdin (names lower-cased, not trimmed); 0 if none
colMap(header, name) ==
    LET hits == {i \in 1..Len(header) : ToLower(header[i]) = name}
    IN IF hits = {} THEN 0 ELSE CHOOSE i \in hits : \A j \in hits : i >= j

\* the rowMap of executeFromStdin
rowMapStdin(header, record) ==
    LET names == {ToLower(header[i]) : i \in 1..Len(header)}
        present == {n \in names : colMap(header, n) <= Len(record)}
    IN [n \in present |-> record[colMap(header, n)]]

\* one iteration of the row loop of executeFromStdin: [done, read, st] where
\* st = [pos, rowCount, rows]
stdinStep(f, q, outIndices, st) ==
    LET rd == csvRead(f, st.pos) IN
    IF rd.eof THEN [done |-> TRUE, read |-> FALSE, st |-> st]
    ELSE LET st1 == [st EXCEPT !.pos = rd.pos]
         IN IF q.Where # NoWhere /\ ~Evaluate(q.Where, rowMapStdin(Header, rd.record))
            THEN [done |-> FALSE, read |-> TRUE, st |-> st1]
            ELSE LET st2 == [st1 EXCEPT !.rows = Append(st1.rows, project(rd.record, outIndices)),
                                        !.rowCount = st1.rowCount + 1]
                 IN [done |-> q.Limit > 0 /\ st2.rowCount >= q.Limit,
                     read |-> TRUE, st |-> st2]

\* the row loop of executeFromStdin
RECURSIVE stdinLoop(_, _, _, _)
stdinLoop(f, q, outIndices, st) ==
    LET r == stdinStep(f, q, outIndices, st)
    IN IF r.done THEN r.st ELSE stdinLoop(f, q, outIndices, r.st)

\* executeFromStdin(query, out) with the bytes of f on the standard input
executeFromStdin(f, q) ==
    LET outIndices == IF q.AllColumns THEN [i \in 1..Len(Header) |-> i]
                      ELSE [i \in 1..Len(q.Columns) |-> colMap(Header, ToLower(q.Columns[i]))]
        outCols == IF q.AllColumns THEN Header ELSE q.Columns
    IN IF \E i \in 1..Len(outIndices) : outIndices[i] = 0
       THEN [err |-> "unknown column", header |-> << >>, rows |-> << >>]
       ELSE [err |-> "nil", header |-> outCols,
             rows |-> stdinLoop(f, q, outIndices, [pos |-> 1, rowCount |-> 0, rows |-> << >>]).rows]

----------------------------------------------------------------------------
(* The parallel scanner, as the function it computes when every task runs  *)
(* to completion; the tasks themselves are the actions of ParSpec.         *)

\* rows per batch: batchSize of ParallelExecute (10000), scaled to the model
batchSize == 2
\* the file size from which ParallelExecute runs (10 MiB), scaled to the model
parallelMinFileSize == 7
\* the smallest LIMIT with which ParallelExecute runs (10000), scaled
parallelMinLimit == 2

\* all records the reader goroutine reads, in order
RECURSIVE csvRecords(_, _)
csvRecords(f, pos) ==
    LET rd == csvRead(f, pos) IN
    IF rd.eof THEN << >> ELSE <<rd.record>> \o csvRecords(f, rd.pos)

\* the batches the reader goroutine sends; ids are 0-based
RECURSIVE batchesOf(_, _)
batchesOf(records, id) ==
    IF records = << >> THEN << >>
    ELSE IF Len(records) <= batchSize THEN <<[id |-> id, rows |-> records]>>
    ELSE <<[id |-> id, rows |-> SubSeq(records, 1, batchSize)]>>
         \o batchesOf(SubSeq(records, batchSize + 1, Len(records)), id + 1)

\* the rowMap of processBatches: a missing column reads as ""
rowMapPar(header, record) ==
    LET nh == normalizedHeaders(header)
    IN [n \in {nh[i] : i \in 1..Len(nh)} |->
            LET i == CHOOSE i \in 1..Len(nh) : nh[i] = n /\ \A j \in 1..Len(nh) : nh[j] = n => j <= i
            IN IF i <= Len(record) THEN record[i] ELSE EmptyStr]

\* the body of processBatches for one batch: its batchResult
RECURSIVE filterRows(_, _, _)
filterRows(rows, q, sel) ==
    IF rows = << >> THEN << >>
    ELSE IF q.Where # NoWhere /\ ~EvaluateNormalized(q.Where, rowMapPar(Header, Head(rows)))
    THEN filterRows(Tail(rows), q, sel)
    ELSE <<project(Head(rows), sel)>> \o filterRows(Tail(rows), q, sel)

processBatch(batch, q, sel) == [id |-> batch.id, rows |-> filterRows(batch.rows, q, sel)]

\* what the dispatcher writes of rows when rowCount rows are written already
takeUnderLimit(rows, rowCount, limit) ==
    IF limit < 0 THEN rows
    ELSE IF rowCount >= limit THEN << >>
    ELSE SubSeq(rows, 1, Min2(Len(rows), limit - rowCount))

RECURSIVE dispatchAll(_, _, _, _)
dispatchAll(bs, q, sel, acc) ==
    IF bs = << >> THEN acc
    ELSE dispatchAll(Tail(bs), q, sel,
                     acc \o takeUnderLimit(processBatch(Head(bs), q, sel).rows, Len(acc), q.Limit))

\* ParallelExecute decides to run: the size and LIMIT tests
parallelEligible(f, q) ==
    /\ FileSize(f) >= parallelMinFileSize
    /\ ~(q.Limit >= 0 /\ q.Limit < parallelMinLimit)

\* ParallelExecute(query, out) when it runs and every task finishes
parallelExecute(f, q) ==
    LET proj == resolveProjection(q, Header) IN
    IF ~proj.ok THEN [err |-> "unknown column", header |-> << >>, rows |-> << >>]
    ELSE IF q.Where # NoWhere /\ ~validateWhereColumns(q.Where, Header)
    THEN [err |-> "unknown column", header |-> << >>, rows |-> << >>]
    ELSE [err |-> "nil", header |-> proj.names,
          rows |-> dispatchAll(batchesOf(csvRecords(f, 1), 0), q, proj.idxs, << >>)]

----------------------------------------------------------------------------
(* The sidecar file and Execute *)

\* "SIDX"
Magic == <<83, 73, 68, 88>>

NoSidecar == [present |-> FALSE]

\* the .sidx file WriteIndex leaves for idx
WrittenSidecar(idx) ==
    [present |-> TRUE, openable |-> TRUE, magic |-> Magic, complete |-> TRUE, idx |-> idx]

\* sidx.ReadIndex on the opened sidecar: [ok, idx]
ReadIndex(sc) ==
    IF sc.magic # Magic THEN [ok |-> FALSE, idx |-> NoIndex]
    ELSE IF ~sc.complete THEN [ok |-> FALSE, idx |-> NoIndex]
    ELSE [ok |-> TRUE, idx |-> [sc.idx EXCEPT !.Header.Magic = Magic]]

\* strings.EqualFold on ASCII
EqualFold(x, y) == ToLower(x) = ToLower(y)

\* ValidateIndex without the mtime test
ValidateIndexNoMtime(idx, header, meta) ==
    /\ meta.size = idx.Header.FileSize
    /\ Len(idx.Header.Columns) > 0 =>
          /\ Len(header) = Len(idx.Header.Columns)
          /\ \A i \in 1..Len(header) :
                EqualFold(TrimSpace(header[i]), idx.Header.Columns[i].Name)

\* sidx.ValidateIndex(index, csvPath): TRUE iff it returns nil
ValidateIndex(idx, header, meta) ==
    /\ meta.size = idx.Header.FileSize
    /\ meta.mtime = idx.Header.FileMtime
    /\ Len(idx.Header.Columns) > 0 =>
          /\ Len(header) = Len(idx.Header.Columns)
          /\ \A i \in 1..Len(header) :
                EqualFold(TrimSpace(header[i]), idx.Header.Columns[i].Name)

\* the index Execute ends up with after the load attempt (lines 35-48)
loadIndex(sc, header, meta) ==
    IF ~sc.present \/ ~sc.openable THEN NoIndex
    ELSE LET r == ReadIndex(sc)
         IN IF r.ok /\ ValidateIndex(r.idx, header, meta) THEN r.idx ELSE NoIndex

\* Execute trying the parallel scanner before it looks at the index
strategyOfParallelFirst(f, idx, q, e) ==
    IF e.stdin THEN "stdin"
    ELSE IF ~e.noParallel /\ parallelEligible(f, q) THEN "parallel"
    ELSE IF idx # NoIndex THEN "indexed"
    ELSE "sequential"

\* the strategy Execute takes
strategyOf(f, idx, q, e) ==
    IF e.stdin THEN "stdin"
    ELSE IF idx = NoIndex /\ ~e.noParallel /\ parallelEligible(f, q) THEN "parallel"
    ELSE IF idx # NoIndex THEN "indexed"
    ELSE "sequential"

\* engine.Execute(query, out): [strategy, err, header, rows]
Execute(f, sc, meta, q, e) ==
    LET idx == IF e.stdin THEN NoIndex ELSE loadIndex(sc, Header, meta)
        strategy == strategyOf(f, idx, q, e)
        r == CASE strategy = "stdin" -> executeFromStdin(f, q)
               [] strategy = "parallel" -> parallelExecute(f, q)
               [] OTHER -> executeSequential(f, idx, q)
    IN [strategy |-> strategy, err |-> r.err, header |-> r.header, rows |-> r.rows]

----------------------------------------------------------------------------
(* Queries of the model *)

Literals == {EmptyStr, Str2, Str10, StrA}

Comparisons == {Comparison(ColV, op, lit) : op \in Operators, lit \in Literals}

\* the comparisons the composite predicates are built from
CoreComparisons ==
    {Comparison(ColV, "=", Str2), Comparison(ColV, "<", StrA), Comparison(ColV, ">", Str10)}

Composites ==
    {UnaryExpr("NOT", c) : c \in CoreComparisons}
    \cup {BinaryExpr(c, op, d) : c \in CoreComparisons, d \in CoreComparisons, op \in {"AND", "OR"}}

Predicates == Comparisons \cup Composites

NoQuery == [none |-> TRUE]
NoEnv == [none |-> TRUE]
NoResult == [none |-> TRUE]
NoPrune == [asked |-> FALSE]
NoPar == [pc |-> "idle"]
NoStream == [pc |-> "idle"]

StatOf(f, mtime) == [size |-> FileSize(f), mtime |-> mtime]

----------------------------------------------------------------------------
(* Spec: building an index over a file and asking it what can be pruned *)

Init ==
    /\ file \in Files
    /\ b \in {SetSkipTypeInference(NewBuilder(bs), skip) :
                 bs \in 1..MaxBlockSize, skip \in BOOLEAN}
    /\ index = NoIndex
    /\ pruneQ = NoPrune
    /\ sidecar = NoSidecar
    /\ fileMeta = StatOf(file, 1)
    /\ query = NoQuery
    /\ env = NoEnv
    /\ result = NoResult
    /\ par = NoPar
    /\ stream = NoStream
    /\ hdr = Header

\* Builder.BuildFromFile(csvPath) followed by WriteIndex to <csvPath>.sidx
Build ==
    /\ index = NoIndex
    /\ result = NoResult
    /\ LET bld == BuildFromFile(b, file)
       IN /\ ~bld.panicked
          /\ b' = bld
          /\ index' = BuiltIndex(bld, fileMeta)
          /\ sidecar' = WrittenSidecar(BuiltIndex(bld, fileMeta))
    /\ UNCHANGED <<file, pruneQ, fileMeta, query, env, result, par, hdr, stream>>

\* the pruning pass of Execute over every block of the index
Prune ==
    /\ index # NoIndex
    /\ ~pruneQ.asked
    /\ \E e \in Predicates :
          pruneQ' = [asked |-> TRUE, expr |-> e,
                     pruned |-> pruneBlocksOf(index, [Where |-> e])]
    /\ UNCHANGED <<file, b, index, sidecar, fileMeta, query, env, result, par, hdr, stream>>

Next == Build \/ Prune

Spec == Init /\ [][Next]_vars

----------------------------------------------------------------------------
(* Properties of the index and of pruning *)

\* the data rows of the file as the Builder numbers them (0-based row r is
\* DataRows(f)[r + 1])
DataRows(f) == csvRecords(f, 1)

\* the WHERE evaluator applied to one data row
RowSatisfies(e, record) == EvaluateNormalized(e, rowMapSeq(Header, record))

\* C1: block pruning is conservative: a block that the pruner allows to skip
\* has no data row in [start_row, end_row) that satisfies the predicate.
C1_PruneConservative ==
    pruneQ.asked =>
        \A i \in pruneQ.pruned :
            \A r \in index.Blocks[i + 1].StartRow..(index.Blocks[i + 1].EndRow - 1) :
                ~RowSatisfies(pruneQ.expr, DataRows(file)[r + 1])

\* C8: (I1) consecutive blocks of a built index are contiguous in rows and in
\* byte offsets.
C8_BlocksContiguous ==
    index # NoIndex =>
        \A i \in 1..(Len(index.Blocks) - 1) :
            /\ index.Blocks[i].EndRow = index.Blocks[i + 1].StartRow
            /\ index.Blocks[i].EndOffset = index.Blocks[i + 1].StartOffset

\* C9: (I3) in every block of a built index, every column with non-empty
\* stats has min <= max under the column's declared comparison.
C9_MinLeMax ==
    index # NoIndex =>
        \A i \in 1..Len(index.Blocks) : \A c \in 1..Len(index.Header.Columns) :
            LET st == index.Blocks[i].Columns[c]
            IN (st.Min # EmptyStr /\ st.Max # EmptyStr) =>
                  pruneCompare(index.Header.Columns[c].Type, st.Min, st.Max) <= 0

----------------------------------------------------------------------------
(* ExecSpec: querying a file, with or without a sidecar built for it *)

ExecFiles == UNION {FilesOfLen(n) : n \in 0..MaxExecRows}

ExecPredicates ==
    {NoWhere}
    \cup {Comparison(ColV, op, Str10) : op \in Operators}
    \cup {Comparison(ColV, "!=", StrA), Comparison(ColV, "<", StrA)}

\* SELECT * or SELECT v, with or without WHERE and LIMIT; Limit -1 is no LIMIT
ExecQueries ==
    {[AllColumns |-> all, Columns |-> IF all THEN << >> ELSE <<ColV>>,
      Where |-> w, Limit |-> l] :
        all \in BOOLEAN, w \in ExecPredicates, l \in (-1)..MaxLimit}

\* stdin: the file's bytes arrive on the standard input (FROM '-');
\* noParallel: SIDX_NO_PARALLEL=1
Envs == {[stdin |-> TRUE, noParallel |-> FALSE],
         [stdin |-> FALSE, noParallel |-> FALSE],
         [stdin |-> FALSE, noParallel |-> TRUE]}

ExecInit ==
    /\ file \in ExecFiles
    /\ b \in {SetSkipTypeInference(NewBuilder(bs), skip) :
                 bs \in 1..MaxBlockSize, skip \in BOOLEAN}
    /\ index = NoIndex
    /\ pruneQ = NoPrune
    /\ sidecar = NoSidecar
    /\ fileMeta = StatOf(file, 1)
    /\ query = NoQuery
    /\ env = NoEnv
    /\ result = NoResult
    /\ par = NoPar
    /\ stream = NoStream
    /\ hdr = Header

\* engine.Execute(query, out) for one query of the set qs
Run(qs) ==
    /\ result = NoResult
    /\ \E q \in qs, e \in Envs :
          /\ query' = q
          /\ env' = e
          /\ result' = Execute(file, sidecar, fileMeta, q, e)
    /\ UNCHANGED <<file, b, index, pruneQ, sidecar, fileMeta, par, hdr, stream>>

RunQuery == Run(ExecQueries)

ExecNext == Build \/ RunQuery

ExecSpec == ExecInit /\ [][ExecNext]_vars

Ran == result # NoResult

\* the rows Execute emits on the same file and query with no sidecar and the
\* sequential scanner
SequentialRows(f, q) == executeSequential(f, NoIndex, q).rows

\* C2: with a valid sidecar Execute emits the same data rows, in the same
\* order, as on the same file with no sidecar (sequential path).
C2_IndexedEqualsSequential ==
    (Ran /\ result.strategy = "indexed" /\ result.err = "nil") =>
        result.rows = SequentialRows(file, query)

\* C3: the parallel scanner emits the same data rows, in the same order, as
\* the run of the same query with SIDX_NO_PARALLEL=1.
C3_ParallelEqualsSequential ==
    (Ran /\ result.strategy = "parallel" /\ result.err = "nil") =>
        result.rows = Execute(file, sidecar, fileMeta, query,
                              [env EXCEPT !.noParallel = TRUE]).rows

\* C6: a query with LIMIT 0 emits no data row, whatever the strategy.
C6_LimitZeroEmitsNoRow ==
    (Ran /\ query.Limit = 0 /\ result.err = "nil") => result.rows = << >>

\* the data rows of f that satisfy the predicate of q, projected, in order
RECURSIVE matchingRows(_, _, _)
matchingRows(records, q, sel) ==
    IF records = << >> THEN << >>
    ELSE IF q.Where # NoWhere /\ ~RowSatisfies(q.Where, Head(records))
    THEN matchingRows(Tail(records), q, sel)
    ELSE <<project(Head(records), sel)>> \o matchingRows(Tail(records), q, sel)

MatchingRows(f, q) == matchingRows(DataRows(f), q, resolveProjection(q, Header).idxs)

\* C7: with LIMIT n >= 1 every strategy emits exactly the first
\* min(n, number of matching rows) matching rows, in source order.
C7_LimitEmitsFirstMatches ==
    (Ran /\ query.Limit >= 1 /\ result.err = "nil") =>
        result.rows = SubSeq(MatchingRows(file, query), 1,
                             Min2(query.Limit, Len(MatchingRows(file, query))))

----------------------------------------------------------------------------
(* SidecarSpec: the sidecar goes stale or bad between the build and the    *)
(* query                                                                   *)

\* "w", a column name that is not in the header
ColW == <<119>>
\* "XIDX", four bytes that are not the magic
BadMagic == <<88, 73, 68, 88>>

SidecarQueries ==
    {[AllColumns |-> TRUE, Columns |-> << >>, Where |-> w, Limit |-> -1] :
        w \in {NoWhere, Comparison(ColV, "<", Str10),
               Comparison(ColV, "=", StrA), Comparison(ColV, "!=", StrA)}}

SidecarInit ==
    /\ file \in ExecFiles
    /\ b \in {NewBuilder(bs) : bs \in 1..MaxBlockSize}
    /\ index = NoIndex
    /\ pruneQ = NoPrune
    /\ sidecar = NoSidecar
    /\ fileMeta = StatOf(file, 1)
    /\ query = NoQuery
    /\ env = NoEnv
    /\ result = NoResult
    /\ par = NoPar
    /\ stream = NoStream
    /\ hdr = Header

\* the sidecar is as the Builder left it and the source is unchanged
Pristine ==
    /\ index # NoIndex
    /\ result = NoResult
    /\ sidecar = WrittenSidecar(index)
    /\ fileMeta = StatOf(file, 1)

\* the source is touched: same bytes, later mtime
Touch ==
    /\ Pristine
    /\ fileMeta' = [fileMeta EXCEPT !.mtime = fileMeta.mtime + 1]
    /\ UNCHANGED <<file, b, index, pruneQ, sidecar, query, env, result, par, hdr, stream>>

\* one line of the source is rewritten in place, or a line is appended
Rewrite ==
    /\ Pristine
    /\ \/ \E i \in 1..Len(file) : \E l \in LinesAt(i) \ {file[i]} :
             file' = [file EXCEPT ![i] = l]
       \/ /\ Len(file) < MaxExecRows
          /\ \E l \in LinesAt(Len(file) + 1) : file' = Append(file, l)
    /\ fileMeta' = StatOf(file', fileMeta.mtime + 1)
    /\ UNCHANGED <<b, index, pruneQ, sidecar, query, env, result, par, hdr, stream>>

\* the sidecar is damaged, replaced or removed
DamageSidecar ==
    /\ Pristine
    /\ \/ sidecar' = NoSidecar
       \/ sidecar' = [sidecar EXCEPT !.openable = FALSE]
       \/ sidecar' = [sidecar EXCEPT !.magic = BadMagic]
       \/ sidecar' = [sidecar EXCEPT !.complete = FALSE]
       \/ sidecar' = [sidecar EXCEPT !.idx.Header.Columns[2].Name = ColW]
    /\ UNCHANGED <<file, b, index, pruneQ, fileMeta, query, env, result, par, hdr, stream>>

RunSidecarQuery ==
    /\ Run(SidecarQueries)
    /\ ~env'.stdin

SidecarNext == Build \/ Touch \/ Rewrite \/ DamageSidecar \/ RunSidecarQuery

SidecarSpec == SidecarInit /\ [][SidecarNext]_vars

\* the sidecar is missing, unreadable, truncated, has a bad magic, or does not
\* match the source in size, mtime or header
SidecarRejected ==
    \/ ~sidecar.present
    \/ ~sidecar.openable
    \/ ~sidecar.complete
    \/ sidecar.magic # Magic
    \/ sidecar.idx.Header.FileSize # FileSize(file)
    \/ sidecar.idx.Header.FileMtime # fileMeta.mtime
    \/ \E i \in 1..Len(Header) : sidecar.idx.Header.Columns[i].Name # Header[i]

\* C10: a sidecar that is missing, unreadable, truncated, of a bad magic or
\* failing validation never fails the query: Execute returns and emits what
\* it does when no sidecar file exists.
C10_BadSidecarIgnored ==
    (Ran /\ SidecarRejected) =>
        result = Execute(file, NoSidecar, fileMeta, query, env)

\* a query has run next to a sidecar that is present but rejected, on a file
\* that has rows matching the query
C10_Witness ==
    /\ Ran
    /\ sidecar.present
    /\ SidecarRejected
    /\ result.err = "nil"
    /\ result.rows # << >>

----------------------------------------------------------------------------
(* ParSpec: the goroutines of ParallelExecute, one action per step that    *)
(* touches a channel.  Steps local to one goroutine are taken together     *)
(* with the channel operation that follows them.                            *)

\* the largest GOMAXPROCS of the model
MaxWorkers == 2
\* the largest number of data rows of a file scanned by several workers
MaxParRows == 8
\* the largest number of data rows of a file scanned on one processor
MaxDrainRows == 16

\* the two-digit decimal text of n
IdStr(n) == <<48 + (n \div 10), 48 + (n % 10)>>

\* a file of n rows "<id>,<v>": every third row has v = "a", the others "2"
ParFile(n) == [i \in 1..n |-> <<IdStr(i), IF i % 3 = 0 THEN StrA ELSE Str2>>]

ParFiles(maxRows) == {ParFile(n) : n \in 0..maxRows}

\* SELECT * with or without WHERE v = 2, without LIMIT or with a LIMIT that
\* ParallelExecute accepts
ParQueries ==
    {[AllColumns |-> TRUE, Columns |-> << >>, Where |-> w, Limit |-> l] :
        w \in {NoWhere, Comparison(ColV, "=", Str2)},
        l \in {-1, parallelMinLimit, parallelMinLimit + 1}}

\* make(chan rowBatch, workers*2) and make(chan batchResult, workers*2)
chanCap(workers) == workers * 2

emptyMap == [k \in {} |-> << >>]

\* the state of the goroutines right after they are started; the output
\* accepts failAfter rows and fails on the next write or flush (-1: never)
startedPar(m, proj, failAfter) ==
    [pc |-> "running", workers |-> m, header |-> proj.names, sel |-> proj.idxs,
     rpc |-> "read", rpos |-> 1, batch |-> << >>, batchID |-> 0,
     batches |-> << >>, batchesClosed |-> FALSE,
     w |-> [i \in 1..m |-> [pc |-> "recv", res |-> << >>]],
     results |-> << >>, resultsClosed |-> FALSE,
     readErr |-> << >>,
     dpc |-> "range", resultMap |-> emptyMap, nextID |-> 0, rowCount |-> 0,
     out |-> << >>, wrote |-> << >>, limitHit |-> FALSE, lateSends |-> 0,
     failAfter |-> failAfter]

\* runtime.GOMAXPROCS(0) is m
GoEnv(m) == [stdin |-> FALSE, noParallel |-> FALSE, gomaxprocs |-> m, outFailsAfter |-> -1]

\* a file of at most maxRows rows and a process with at most maxProcs processors
ParInitWith(maxProcs, maxRows) ==
    /\ file \in ParFiles(maxRows)
    /\ b = NewBuilder(1)
    /\ index = NoIndex
    /\ pruneQ = NoPrune
    /\ sidecar = NoSidecar
    /\ fileMeta = StatOf(file, 1)
    /\ query = NoQuery
    /\ env \in {GoEnv(m) : m \in 1..maxProcs}
    /\ result = NoResult
    /\ par = NoPar
    /\ stream = NoStream
    /\ hdr = Header

ParInit == ParInitWith(MaxWorkers, MaxParRows)

\* ParallelExecute up to the start of the goroutines: the size and LIMIT
\* tests, the header, the projection, the channels
StartOf(qs) ==
    /\ par.pc = "idle"
    /\ \E q \in qs :
          LET proj == resolveProjection(q, Header)
              m == IF env.gomaxprocs < 1 THEN 1 ELSE env.gomaxprocs
          IN
          /\ query' = q
          /\ IF ~parallelEligible(file, q)
             THEN /\ par' = [pc |-> "skipped"]
                  /\ result' = [strategy |-> "parallel", err |-> "errSkipParallel",
                                header |-> << >>, rows |-> << >>]
             ELSE IF ~proj.ok \/ (q.Where # NoWhere /\ ~validateWhereColumns(q.Where, Header))
             THEN /\ par' = [pc |-> "failed"]
                  /\ result' = [strategy |-> "parallel", err |-> "unknown column",
                                header |-> << >>, rows |-> << >>]
             ELSE /\ par' = startedPar(m, proj, env.outFailsAfter)
                  /\ result' = result
    /\ UNCHANGED <<file, b, index, pruneQ, sidecar, fileMeta, env, hdr, stream>>

Start == StartOf(ParQueries)

\* reader goroutine: reader.Read() until the batch is full or the file ends
RECURSIVE fillBatch(_, _, _)
fillBatch(f, pos, batch) ==
    LET rd == csvRead(f, pos) IN
    IF rd.eof THEN [eof |-> TRUE, pos |-> rd.pos, batch |-> batch]
    ELSE IF Len(batch) + 1 >= batchSize
    THEN [eof |-> FALSE, pos |-> rd.pos, batch |-> Append(batch, rd.record)]
    ELSE fillBatch(f, rd.pos, Append(batch, rd.record))

\* reader goroutine: read rows up to the next channel operation
ReaderRead ==
    /\ par.pc = "running"
    /\ par.rpc = "read"
    /\ LET fb == fillBatch(file, par.rpos, par.batch) IN
       par' = [par EXCEPT !.rpos = fb.pos, !.batch = fb.batch,
                          !.rpc = IF ~fb.eof THEN "send"
                                  ELSE IF Len(fb.batch) > 0 THEN "sendLast"
                                  ELSE "close"]
    /\ UNCHANGED <<file, b, index, pruneQ, sidecar, fileMeta, query, env, result, hdr, stream>>

\* reader goroutine: batches <- rowBatch{id: batchID, rows: batch}
\* (lateSends counts the sends made once rowCount has reached the LIMIT)
ReaderSend ==
    /\ par.pc = "running"
    /\ par.rpc \in {"send", "sendLast"}
    /\ Len(par.batches) < chanCap(par.workers)
    /\ par' = [par EXCEPT !.batches = Append(@, [id |-> par.batchID, rows |-> par.batch]),
                          !.batch = << >>,
                          !.batchID = IF par.rpc = "send" THEN @ + 1 ELSE @,
                          !.lateSends = IF query.Limit >= 0 /\ par.rowCount >= query.Limit
                                        THEN @ + 1 ELSE @,
                          !.rpc = IF par.rpc = "send" THEN "read" ELSE "close"]
    /\ UNCHANGED <<file, b, index, pruneQ, sidecar, fileMeta, query, env, result, hdr, stream>>

\* the reader returning at io.EOF without close(batches)
ReaderCloseLeaveOpen ==
    /\ par.pc = "running"
    /\ par.rpc = "close"
    /\ par' = [par EXCEPT !.readErr = Append(@, "nil"), !.rpc = "done"]
    /\ UNCHANGED <<file, b, index, pruneQ, sidecar, fileMeta, query, env, result, hdr, stream>>

\* reader goroutine at io.EOF: close(batches); readErr <- nil; return
ReaderClose ==
    /\ par.pc = "running"
    /\ par.rpc = "close"
    /\ par' = [par EXCEPT !.batchesClosed = TRUE, !.readErr = Append(@, "nil"),
                          !.rpc = "done"]
    /\ UNCHANGED <<file, b, index, pruneQ, sidecar, fileMeta, query, env, result, hdr, stream>>

\* worker w: "for batch := range batches" receives a batch and filters it
WorkerReceive(w) ==
    /\ par.pc = "running"
    /\ w \in 1..par.workers
    /\ par.w[w].pc = "recv"
    /\ Len(par.batches) > 0
    /\ par' = [par EXCEPT !.batches = Tail(@),
                          !.w[w] = [pc |-> "send",
                                    res |-> processBatch(Head(par.batches), query, par.sel)]]
    /\ UNCHANGED <<file, b, index, pruneQ, sidecar, fileMeta, query, env, result, hdr, stream>>

\* worker w: results <- batchResult{...}
WorkerSend(w) ==
    /\ par.pc = "running"
    /\ w \in 1..par.workers
    /\ par.w[w].pc = "send"
    /\ Len(par.results) < chanCap(par.workers)
    /\ par' = [par EXCEPT !.results = Append(@, par.w[w].res),
                          !.w[w] = [pc |-> "recv", res |-> << >>]]
    /\ UNCHANGED <<file, b, index, pruneQ, sidecar, fileMeta, query, env, result, hdr, stream>>

\* worker w: the range over the closed and empty batches ends; wg.Done()
WorkerExit(w) ==
    /\ par.pc = "running"
    /\ w \in 1..par.workers
    /\ par.w[w].pc = "recv"
    /\ par.batches = << >>
    /\ par.batchesClosed
    /\ par' = [par EXCEPT !.w[w].pc = "done"]
    /\ UNCHANGED <<file, b, index, pruneQ, sidecar, fileMeta, query, env, result, hdr, stream>>

WorkerStep(w) == WorkerReceive(w) \/ WorkerSend(w) \/ WorkerExit(w)

Worker == \E w \in 1..MaxWorkers : WorkerStep(w)

\* the goroutine "wg.Wait(); close(results)"
Closer ==
    /\ par.pc = "running"
    /\ ~par.resultsClosed
    /\ \A w \in 1..par.workers : par.w[w].pc = "done"
    /\ par' = [par EXCEPT !.resultsClosed = TRUE]
    /\ UNCHANGED <<file, b, index, pruneQ, sidecar, fileMeta, query, env, result, hdr, stream>>

\* resultMap[res.id] = res.rows
mapPut(m, id, rows) == [k \in DOMAIN m \cup {id} |-> IF k = id THEN rows ELSE m[k]]

\* delete(resultMap, id)
mapDelete(m, id) == [k \in DOMAIN m \ {id} |-> m[k]]

\* the dispatcher ignoring nextID: any buffered batch is written next
writableAny(resultMap, nextID) ==
    IF DOMAIN resultMap # {} THEN CHOOSE k \in DOMAIN resultMap : TRUE ELSE -1

\* "rows, ok := resultMap[nextID]": the batch id to write next, -1 when !ok
writable(resultMap, nextID) ==
    IF nextID \in DOMAIN resultMap THEN nextID ELSE -1

\* dispatcher: the loop "write results in order" after one result is stored
RECURSIVE writeInOrder(_, _)
writeInOrder(d, limit) ==
    LET k == writable(d.resultMap, d.nextID) IN
    IF k = -1 THEN d
    ELSE LET rows == d.resultMap[k]
             written == takeUnderLimit(rows, d.rowCount, limit)
         IN IF d.failAfter >= 0 /\ d.rowCount + Len(written) > d.failAfter
            THEN [d EXCEPT !.out = @ \o SubSeq(written, 1, d.failAfter - d.rowCount),
                           !.rowCount = d.failAfter,
                           !.dpc = "failed"]
            ELSE IF Len(written) < Len(rows)
            THEN [d EXCEPT !.out = @ \o written, !.rowCount = @ + Len(written),
                           !.dpc = "done", !.limitHit = TRUE]
            ELSE writeInOrder([d EXCEPT !.out = @ \o rows, !.rowCount = @ + Len(rows),
                                        !.resultMap = mapDelete(@, k),
                                        !.nextID = @ + 1,
                                        !.wrote = Append(@, k)], limit)

\* dispatcher: one iteration of "for res := range results" (res.err is
\* always nil: processBatches sets no error); a failed write or flush
\* returns the error while the other goroutines go on
DispatchReceive ==
    /\ par.pc = "running"
    /\ par.dpc = "range"
    /\ Len(par.results) > 0
    /\ LET res == Head(par.results)
           d == [par EXCEPT !.results = Tail(@),
                            !.resultMap = mapPut(@, res.id, res.rows)]
       IN par' = writeInOrder(d, query.Limit)
    /\ result' = IF par'.dpc = "failed"
                 THEN [strategy |-> "parallel", err |-> "write row",
                       header |-> par.header, rows |-> par'.out]
                 ELSE result
    /\ UNCHANGED <<file, b, index, pruneQ, sidecar, fileMeta, query, env, hdr, stream>>

\* dispatcher: the range over the closed and empty results ends
DispatchEnd ==
    /\ par.pc = "running"
    /\ par.dpc = "range"
    /\ par.results = << >>
    /\ par.resultsClosed
    /\ par' = [par EXCEPT !.dpc = "done"]
    /\ UNCHANGED <<file, b, index, pruneQ, sidecar, fileMeta, query, env, result, hdr, stream>>

\* dispatcher at "done:": <-readErr, the final flush, return nil
Return ==
    /\ par.pc = "running"
    /\ par.dpc = "done"
    /\ Len(par.readErr) > 0
    /\ par' = [par EXCEPT !.readErr = Tail(@), !.dpc = "returned", !.pc = "returned"]
    /\ result' = [strategy |-> "parallel", err |-> Head(par.readErr),
                  header |-> par.header, rows |-> par.out]
    /\ UNCHANGED <<file, b, index, pruneQ, sidecar, fileMeta, query, env, hdr, stream>>

Reader == ReaderRead \/ ReaderSend \/ ReaderClose

Dispatcher == DispatchReceive \/ DispatchEnd \/ Return

ParNext == Start \/ Reader \/ Worker \/ Closer \/ Dispatcher

ParSpec == ParInit /\ [][ParNext]_vars

\* the Go scheduler runs every goroutine that can take a step
\* the same program on one processor; the Go scheduler runs every goroutine
\* that can take a step
FairParSpec ==
    /\ ParInitWith(1, MaxDrainRows)
    /\ [][ParNext]_vars
    /\ WF_vars(Reader)
    /\ WF_vars(WorkerStep(1))
    /\ WF_vars(Closer)
    /\ WF_vars(Dispatcher)

----------------------------------------------------------------------------
(* Properties of the parallel scanner *)

IsPrefix(s, t) == Len(s) <= Len(t) /\ SubSeq(t, 1, Len(s)) = s

\* the rows a scan of the whole file in source order filters and projects
SourceOrderRows == filterRows(csvRecords(file, 1), query, par.sel)

\* ParallelExecute has started its goroutines
Started == par.pc \in {"running", "returned"}

\* C4: in parallel mode, in every interleaving of the reader, the workers and
\* the dispatcher, the batches written are 0, 1, 2, ... with none skipped or
\* written twice, and the rows written are a prefix of the rows of the file
\* in source order that pass the filter.
C4_WrittenInSourceOrder ==
    Started =>
        /\ \A i \in 1..Len(par.wrote) : par.wrote[i] = i - 1
        /\ IsPrefix(par.out, SourceOrderRows)

\* with two workers a later batch waits in resultMap while earlier batches
\* have been written with rows in them
C4_Witness ==
    /\ Started
    /\ par.workers = 2
    /\ par.dpc = "range"
    /\ DOMAIN par.resultMap # {}
    /\ Len(par.wrote) >= 2
    /\ Len(par.out) >= 3

\* the dispatcher has written LIMIT rows
LimitWritten == Started /\ query.Limit >= 0 /\ par.rowCount >= query.Limit

\* ParallelExecute has returned nil
ReturnedNil == par.pc = "returned" /\ result.err = "nil"

\* C5: in parallel mode with a LIMIT, once the dispatcher has written LIMIT
\* rows ParallelExecute eventually returns nil, however many batches of the
\* file are still unread.
C5_LimitReturns == LimitWritten ~> ReturnedNil

----------------------------------------------------------------------------
(* ValidateSpec: an index is built over a source, the source or the index  *)
(* changes, and ValidateIndex is asked whether the index still fits.       *)

\* " v": the name v after a space, as in the header line "id, v"
ColSpV == <<32>> \o ColV
\* "V"
ColUpV == <<86>>

\* header records of sources the Builder is run on
BuildHeaders == {Header, <<ColId, ColSpV>>, <<ColId, ColUpV>>}

\* header records a source is found with when the index is validated
Headers == BuildHeaders \cup {<<ColId, ColW>>, <<ColId>>}

\* os.Stat of a source with header record h and data lines f
StatOfSource(h, f, mtime) ==
    [size |-> FileSize(f) - HeaderLen + RawLen(h), mtime |-> mtime]

ValidateInit ==
    /\ file \in ExecFiles
    /\ hdr \in BuildHeaders
    /\ b \in {NewBuilder(bs) : bs \in 1..MaxBlockSize}
    /\ index = NoIndex
    /\ pruneQ = NoPrune
    /\ sidecar = NoSidecar
    /\ fileMeta = StatOfSource(hdr, file, 1)
    /\ query = NoQuery
    /\ env = NoEnv
    /\ result = NoResult
    /\ par = NoPar
    /\ stream = NoStream

\* Builder.BuildFromFile(csvPath) on the source as it is
BuildSource ==
    /\ index = NoIndex
    /\ LET bld == BuildFromFileOf(b, hdr, file)
       IN /\ ~bld.panicked
          /\ b' = bld
          /\ index' = BuiltIndex(bld, fileMeta)
          /\ sidecar' = WrittenSidecar(BuiltIndex(bld, fileMeta))
    /\ UNCHANGED <<file, pruneQ, fileMeta, query, env, result, par, hdr, stream>>

\* the source changes after the build: its header line is rewritten, it
\* grows by ds bytes, its mtime moves by dm
ModifySource ==
    /\ index # NoIndex
    /\ result = NoResult
    /\ env = NoEnv
    /\ \E h \in Headers, ds \in 0..1, dm \in 0..1 :
          /\ hdr' = h
          /\ fileMeta' = [size |-> fileMeta.size + ds, mtime |-> fileMeta.mtime + dm]
          /\ env' = [modified |-> TRUE]
    /\ UNCHANGED <<file, b, index, pruneQ, sidecar, query, result, par, stream>>

\* the index is one without a column dictionary (NumColumns = 0)
DropDictionary ==
    /\ index # NoIndex
    /\ result = NoResult
    /\ Len(index.Header.Columns) > 0
    /\ index' = [index EXCEPT !.Header.Columns = << >>]
    /\ UNCHANGED <<file, b, pruneQ, sidecar, fileMeta, query, env, result, par, hdr, stream>>

\* sidx.ValidateIndex(index, csvPath)
Validate ==
    /\ index # NoIndex
    /\ result = NoResult
    /\ result' = [accepted |-> ValidateIndex(index, hdr, fileMeta)]
    /\ UNCHANGED <<file, b, index, pruneQ, sidecar, fileMeta, query, env, par, hdr, stream>>

ValidateNext == BuildSource \/ ModifySource \/ DropDictionary \/ Validate

ValidateSpec == ValidateInit /\ [][ValidateNext]_vars

\* C11: ValidateIndex accepts an index exactly when the source's size and
\* mtime equal the stored values and the dictionary names equal the header
\* names in order under case-insensitive, whitespace-trimmed comparison; in
\* particular an index just built from an unchanged file is accepted.
C11_ValidateExact ==
    Ran =>
        (result.accepted <=>
            /\ fileMeta.size = index.Header.FileSize
            /\ fileMeta.mtime = index.Header.FileMtime
            /\ Len(index.Header.Columns) = Len(hdr)
            /\ \A i \in 1..Len(hdr) :
                  ToLower(TrimSpace(index.Header.Columns[i].Name))
                      = ToLower(TrimSpace(hdr[i])))

----------------------------------------------------------------------------
(* LoadSpec: the .sidx file next to the source is one that some other      *)
(* writer left there: it fits the source in size, mtime and header, and    *)
(* one field of one of its blocks is not what the Builder computes.        *)

\* row numbers and empty counts a foreign index file may carry
CraftCounts == 0..(MaxExecRows + 1)

\* the offsets of the line starts of f, the end of the file included
LineStarts(f) == {OffsetOfLine(f, i) : i \in 1..(Len(f) + 1)}

\* the blocks idx.Blocks with one field of block k replaced
CraftedBlocks(idx, f, k) ==
    {[idx.Blocks EXCEPT ![k].StartRow = n] : n \in CraftCounts}
    \cup {[idx.Blocks EXCEPT ![k].EndRow = n] : n \in CraftCounts}
    \cup {[idx.Blocks EXCEPT ![k].StartOffset = o] : o \in LineStarts(f)}
    \cup {[idx.Blocks EXCEPT ![k].EndOffset = o] : o \in LineStarts(f)}
    \cup UNION {{[idx.Blocks EXCEPT ![k].Columns[c].Min = v] : v \in FieldValues}
                \cup {[idx.Blocks EXCEPT ![k].Columns[c].Max = v] : v \in FieldValues}
                \cup {[idx.Blocks EXCEPT ![k].Columns[c].EmptyCount = n] : n \in CraftCounts}
                : c \in 1..Len(idx.Blocks[k].Columns)}

\* the sidecar is replaced by a well-formed file holding other blocks
CraftSidecar ==
    /\ Pristine
    /\ \E k \in 1..Len(index.Blocks) : \E bl \in CraftedBlocks(index, file, k) :
          /\ bl # index.Blocks
          /\ sidecar' = WrittenSidecar([index EXCEPT !.Blocks = bl])
    /\ UNCHANGED <<file, b, index, pruneQ, fileMeta, query, env, result, par, hdr, stream>>

LoadNext == Build \/ CraftSidecar \/ RunSidecarQuery

LoadSpec == SidecarInit /\ [][LoadNext]_vars

\* C12: an index file whose blocks violate I1-I5 (non-contiguous or
\* overlapping row or offset ranges, start_row >= end_row, min > max,
\* empty_count larger than the block, dictionary length different from the
\* header column count) is rejected on load: the query emits what it emits
\* when no index exists.
C12_InvariantsCheckedOnLoad ==
    LET idx == sidecar.idx
        n == Len(idx.Blocks)
        numLe(x, y) == ParseFloat(x).ok /\ ParseFloat(y).ok /\ NumCmp(ParseFloat(x), ParseFloat(y)) <= 0
        minLeMax(c, s) ==
            IF idx.Header.Columns[c].Type = ColumnTypeNumeric
               /\ ParseFloat(s.Min).ok /\ ParseFloat(s.Max).ok
            THEN numLe(s.Min, s.Max)
            ELSE StrCmp(s.Min, s.Max) <= 0
        I1 == \A i \in 1..(n - 1) :
                 /\ idx.Blocks[i].EndRow = idx.Blocks[i + 1].StartRow
                 /\ idx.Blocks[i].EndOffset = idx.Blocks[i + 1].StartOffset
        I2 == \A i \in 1..n :
                 /\ idx.Blocks[i].StartRow < idx.Blocks[i].EndRow
                 /\ idx.Blocks[i].StartOffset <= idx.Blocks[i].EndOffset
        I3 == \A i \in 1..n : \A c \in 1..Len(idx.Blocks[i].Columns) :
                 minLeMax(c, idx.Blocks[i].Columns[c])
        I4 == \A i \in 1..n : \A c \in 1..Len(idx.Blocks[i].Columns) :
                 idx.Blocks[i].Columns[c].EmptyCount
                     <= idx.Blocks[i].EndRow - idx.Blocks[i].StartRow
        I5 == Len(idx.Header.Columns) = Len(Header)
    IN (Ran /\ sidecar.present /\ ~(I1 /\ I2 /\ I3 /\ I4 /\ I5)) =>
           result = Execute(file, NoSidecar, fileMeta, query, env)

----------------------------------------------------------------------------
(* internal/sidx/format.go: the bytes of a .sidx file *)

\* binary.Write(w, binary.LittleEndian, n) for an integer of w bytes
RECURSIVE putUint(_, _)
putUint(n, w) == IF w = 0 THEN << >> ELSE <<n % 256>> \o putUint(n \div 256, w - 1)

\* the integer that little-endian bytes hold
RECURSIVE leValue(_)
leValue(bs) == IF bs = << >> THEN 0 ELSE Head(bs) + 256 * leValue(Tail(bs))

\* uint32(len(s)) followed by the bytes of s
putString(s) == putUint(Len(s), 4) \o s

RECURSIVE putColumns(_)
putColumns(cols) ==
    IF cols = << >> THEN << >>
    ELSE putString(Head(cols).Name) \o putUint(Head(cols).Type, 1) \o putColumns(Tail(cols))

RECURSIVE putStats(_)
putStats(stats) ==
    IF stats = << >> THEN << >>
    ELSE putString(Head(stats).Min) \o putString(Head(stats).Max)
         \o putUint(Head(stats).EmptyCount, 4) \o putStats(Tail(stats))

RECURSIVE putBlocks(_)
putBlocks(blocks) ==
    IF blocks = << >> THEN << >>
    ELSE putUint(Head(blocks).StartRow, 8) \o putUint(Head(blocks).EndRow, 8)
         \o putUint(Head(blocks).StartOffset, 8) \o putUint(Head(blocks).EndOffset, 8)
         \o putStats(Head(blocks).Columns) \o putBlocks(Tail(blocks))

\* WriteIndex(w, idx): the bytes written
WriteIndex(idx) ==
    Magic \o putUint(idx.Header.Version, 4) \o putUint(idx.Header.BlockSize, 4)
    \o putUint(idx.Header.NumBlocks, 4) \o putUint(idx.Header.FileSize, 8)
    \o putUint(idx.Header.FileMtime, 8)
    \o putUint(Len(idx.Header.Columns), 4) \o putColumns(idx.Header.Columns)
    \o putBlocks(idx.Blocks)

\* binary.Read / io.ReadFull of w bytes at pos: [ok, v, pos]
getBytes(bs, pos, w) ==
    IF pos + w - 1 > Len(bs) THEN [ok |-> FALSE, v |-> << >>, pos |-> pos]
    ELSE [ok |-> TRUE, v |-> SubSeq(bs, pos, pos + w - 1), pos |-> pos + w]

getUint(bs, pos, w) ==
    LET r == getBytes(bs, pos, w)
    IN [ok |-> r.ok, v |-> leValue(r.v), pos |-> r.pos]

\* a uint32 length and that many bytes
getString(bs, pos) ==
    LET n == getUint(bs, pos, 4)
    IN IF ~n.ok THEN [ok |-> FALSE, v |-> << >>, pos |-> pos]
       ELSE getBytes(bs, n.pos, n.v)

\* the column dictionary loop of ReadIndex: [ok, v, pos]
RECURSIVE getColumns(_, _, _)
getColumns(bs, pos, n) ==
    IF n = 0 THEN [ok |-> TRUE, v |-> << >>, pos |-> pos]
    ELSE LET name == getString(bs, pos)
             type == getUint(bs, name.pos, 1)
             rest == getColumns(bs, type.pos, n - 1)
         IN IF ~name.ok \/ ~type.ok \/ ~rest.ok
            THEN [ok |-> FALSE, v |-> << >>, pos |-> pos]
            ELSE [ok |-> TRUE, v |-> <<[Name |-> name.v, Type |-> type.v]>> \o rest.v,
                  pos |-> rest.pos]

\* the per-column statistics loop of ReadIndex: [ok, v, pos]
RECURSIVE getStats(_, _, _, _)
getStats(bs, pos, n, version) ==
    IF n = 0 THEN [ok |-> TRUE, v |-> << >>, pos |-> pos]
    ELSE LET min == getString(bs, pos)
             max == getString(bs, min.pos)
             ec == IF version >= 3 THEN getUint(bs, max.pos, 4)
                   ELSE [ok |-> TRUE, v |-> 0, pos |-> max.pos]
         IN IF ~min.ok \/ ~max.ok \/ ~ec.ok
            THEN [ok |-> FALSE, v |-> << >>, pos |-> pos]
            ELSE LET rest == getStats(bs, ec.pos, n - 1, version)
                 IN IF ~rest.ok THEN [ok |-> FALSE, v |-> << >>, pos |-> pos]
                    ELSE [ok |-> TRUE,
                          v |-> <<[Min |-> min.v, Max |-> max.v, EmptyCount |-> ec.v]>> \o rest.v,
                          pos |-> rest.pos]

\* the block loop of ReadIndex: [ok, v, pos]
RECURSIVE getBlocks(_, _, _, _, _)
getBlocks(bs, pos, n, numColumns, version) ==
    IF n = 0 THEN [ok |-> TRUE, v |-> << >>, pos |-> pos]
    ELSE LET sr == getUint(bs, pos, 8)
             er == getUint(bs, sr.pos, 8)
             so == getUint(bs, er.pos, 8)
             eo == getUint(bs, so.pos, 8)
             st == getStats(bs, eo.pos, numColumns, version)
         IN IF ~sr.ok \/ ~er.ok \/ ~so.ok \/ ~eo.ok \/ ~st.ok
            THEN [ok |-> FALSE, v |-> << >>, pos |-> pos]
            ELSE LET rest == getBlocks(bs, st.pos, n - 1, numColumns, version)
                 IN IF ~rest.ok THEN [ok |-> FALSE, v |-> << >>, pos |-> pos]
                    ELSE [ok |-> TRUE,
                          v |-> <<[StartRow |-> sr.v, EndRow |-> er.v,
                                   StartOffset |-> so.v, EndOffset |-> eo.v,
                                   Columns |-> st.v]>> \o rest.v,
                          pos |-> rest.pos]

\* ReadIndex(r) on the bytes bs: [ok, err, idx]
ReadIndexBytes(bs) ==
    LET failed(e) == [ok |-> FALSE, err |-> e, idx |-> NoIndex]
        magic == getBytes(bs, 1, 4)
        version == getUint(bs, 5, 4)
        blockSize == getUint(bs, 9, 4)
        numBlocks == getUint(bs, 13, 4)
        fileSize == getUint(bs, 17, 8)
        fileMtime == getUint(bs, 25, 8)
        numColumns == getUint(bs, 33, 4)
        columns == getColumns(bs, numColumns.pos, numColumns.v)
        blocks == getBlocks(bs, columns.pos, numBlocks.v, numColumns.v, version.v)
    IN IF ~magic.ok THEN failed("unexpected EOF")
       ELSE IF magic.v # Magic THEN failed("invalid magic")
       ELSE IF ~numColumns.ok \/ ~columns.ok \/ ~blocks.ok THEN failed("unexpected EOF")
       ELSE [ok |-> TRUE, err |-> "nil",
             idx |-> [Header |-> [Magic |-> magic.v, Version |-> version.v,
                                  BlockSize |-> blockSize.v, NumBlocks |-> numBlocks.v,
                                  FileSize |-> fileSize.v, FileMtime |-> fileMtime.v,
                                  Columns |-> columns.v],
                      Blocks |-> blocks.v]]

----------------------------------------------------------------------------
(* FormatSpec: an index is built, written with WriteIndex, and the bytes,  *)
(* or the bytes with another magic or version field, are read back.        *)

\* version fields found in a file: the current one and two later ones
FileVersions == {Version, Version + 1, Version + 4}

\* the bytes bs with the magic and the version field replaced
withMagicVersion(bs, mg, v) == mg \o putUint(v, 4) \o SubSeq(bs, 9, Len(bs))

\* WriteIndex of the built index; the file as written, or with another
\* magic or version, is read with ReadIndex
ReadBack ==
    /\ index # NoIndex
    /\ result = NoResult
    /\ \E mg \in {Magic, BadMagic}, v \in FileVersions :
          LET written == WriteIndex(index)
              bytes == withMagicVersion(written, mg, v)
          IN result' = [magic |-> mg, version |-> v, written |-> index,
                        read |-> ReadIndexBytes(bytes)]
    /\ UNCHANGED <<file, b, index, pruneQ, sidecar, fileMeta, query, env, par, hdr, stream>>

FormatNext == Build \/ ReadBack

FormatSpec == Init /\ [][FormatNext]_vars

\* C13: ReadIndex fails with a bad-magic error when the first four bytes are
\* not "SIDX" and with an unsupported-version error when the version field
\* is not a known version; it returns no Index for an unknown version.
C13_ReadIndexRejects ==
    Ran =>
        /\ result.magic # Magic =>
              ~result.read.ok /\ result.read.err = "invalid magic"
        /\ (result.magic = Magic /\ result.version \notin 1..Version) =>
              ~result.read.ok /\ result.read.err = "unsupported version"

----------------------------------------------------------------------------
(* Properties of Execute as a whole *)

----------------------------------------------------------------------------
(* StreamSpec: one Execute, step by step: what it has read from the source, *)
(* what is in the buffer of its csv.Writer and what is on the output.      *)

\* defaultFlushEveryN (8192), scaled to the model
defaultFlushEveryN == 2

StreamQueries ==
    {[AllColumns |-> all, Columns |-> IF all THEN << >> ELSE <<ColV>>,
      Where |-> w, Limit |-> l] :
        all \in BOOLEAN, w \in {NoWhere, Comparison(ColV, "<", StrA)},
        l \in {-1, MaxLimit}}

\* the buffer of the bufio.Writer under csv.NewWriter(out) (4096 bytes), in
\* records, scaled to the model
writerBufferSize == 2

\* bufio.Writer.Flush of the writer s = [buf, out, okRecords, werr, ...]: the
\* output takes okRecords records and fails every write after them (-1: it
\* never fails); an error sticks to the writer, an empty buffer is not written
flushWriter(s) ==
    IF s.werr \/ s.buf = << >> THEN s
    ELSE IF s.okRecords >= 0 /\ Len(s.out) + Len(s.buf) > s.okRecords
    THEN [s EXCEPT !.out = @ \o SubSeq(s.buf, 1, s.okRecords - Len(s.out)),
                   !.werr = TRUE]
    ELSE [s EXCEPT !.out = @ \o s.buf, !.buf = << >>]

\* csv.Writer.Write(record): the record goes to the buffer, which is flushed
\* first when it is full; the error of the writer is returned
writeRecord(s, record) ==
    LET s1 == IF Len(s.buf) >= writerBufferSize THEN flushWriter(s) ELSE s
    IN IF s1.werr THEN s1 ELSE [s1 EXCEPT !.buf = Append(@, record)]

\* Execute or executeFromStdin up to the write of the header: the index is
\* loaded, the strategy taken, the header record read, the projection
\* resolved, the WHERE columns validated, the blocks pruned and the first seek
\* done; oks are the numbers of records the output may take
ReadHeaderOf(qs, es, oks) ==
    /\ stream.pc = "idle"
    /\ result = NoResult
    /\ \E q \in qs, e \in es, ok \in oks :
          LET idx == IF e.stdin THEN NoIndex ELSE loadIndex(sidecar, Header, fileMeta)
              strategy == strategyOf(file, idx, q, e)
              proj == resolveProjection(q, Header)
              outIndices == IF q.AllColumns THEN [i \in 1..Len(Header) |-> i]
                            ELSE [i \in 1..Len(q.Columns) |-> colMap(Header, ToLower(q.Columns[i]))]
              failed == IF strategy = "stdin"
                        THEN \E i \in 1..Len(outIndices) : outIndices[i] = 0
                        ELSE ~proj.ok \/ (q.Where # NoWhere /\ ~validateWhereColumns(q.Where, Header))
          IN /\ query' = q
             /\ env' = e
             /\ IF failed
                THEN /\ stream' = [pc |-> "failed"]
                     /\ result' = [strategy |-> strategy, err |-> "unknown column",
                                   header |-> << >>, rows |-> << >>]
                ELSE /\ stream' =
                          [pc |-> "writeHeader", strategy |-> strategy, idx |-> idx,
                           header |-> IF strategy # "stdin" THEN proj.names
                                      ELSE IF q.AllColumns THEN Header ELSE q.Columns,
                           sel |-> IF strategy = "stdin" THEN outIndices ELSE proj.idxs,
                           st |-> IF strategy = "stdin"
                                  THEN [pos |-> 1, rowCount |-> 0, rows |-> << >>]
                                  ELSE scanStart(file, idx, q),
                           nread |-> 0, rowsSinceFlush |-> 0,
                           buf |-> << >>, out |-> << >>,
                           okRecords |-> ok, werr |-> FALSE]
                     /\ result' = result
    /\ UNCHANGED <<file, b, index, pruneQ, sidecar, fileMeta, par, hdr>>

ReadHeader == ReadHeaderOf(StreamQueries, Envs, {-1})

\* writer.Write(outputHeader): the header goes to the buffer of the writer
WriteHeader ==
    /\ stream.pc = "writeHeader"
    /\ stream' = [writeRecord(stream, stream.header) EXCEPT
                          !.pc = IF stream.strategy = "stdin" THEN "rows"
                                 ELSE "flushHeader"]
    /\ UNCHANGED <<file, b, index, pruneQ, sidecar, fileMeta, query, env, result, par, hdr>>

\* the result of a run that returns err
returned(err) ==
    [strategy |-> stream.strategy, err |-> err,
     header |-> stream.header, rows |-> stream.st.rows]

\* writer.Flush() and the test of writer.Error() after the header, in Execute
\* and in ParallelExecute
FlushHeader ==
    /\ stream.pc = "flushHeader"
    /\ LET s1 == flushWriter(stream)
       IN IF s1.werr
          THEN /\ stream' = [s1 EXCEPT !.pc = "returned"]
               /\ result' = returned("flush header")
          ELSE /\ stream' = [s1 EXCEPT !.pc = IF stream.strategy = "parallel"
                                                THEN "pipeline" ELSE "rows"]
               /\ result' = result
    /\ UNCHANGED <<file, b, index, pruneQ, sidecar, fileMeta, query, env, par, hdr>>

\* one iteration of the row loop of Execute or of executeFromStdin: the
\* record is read and tested (r), the row written (s1) and, in Execute, the
\* writer flushed every defaultFlushEveryN rows (s2)
ScanRow ==
    /\ stream.pc = "rows"
    /\ \E r \in {IF stream.strategy = "stdin"
                 THEN stdinStep(file, query, stream.sel, stream.st)
                 ELSE scanStep(file, stream.idx, query,
                               pruneBlocksOf(stream.idx, query), stream.sel, stream.st)} :
       \E s1 \in {IF Len(r.st.rows) > Len(stream.st.rows)
                  THEN writeRecord(stream, r.st.rows[Len(r.st.rows)]) ELSE stream} :
       LET wrote == Len(r.st.rows) > Len(stream.st.rows)
           writeFailed == wrote /\ s1.werr
           rsf == IF wrote THEN stream.rowsSinceFlush + 1 ELSE stream.rowsSinceFlush
           flush == /\ stream.strategy # "stdin"
                    /\ wrote
                    /\ ~writeFailed
                    /\ rsf >= defaultFlushEveryN
       IN \E s2 \in {IF flush THEN flushWriter(s1) ELSE s1} :
          \E err \in {IF writeFailed THEN "write row"
                      ELSE IF flush /\ s2.werr THEN "flush rows" ELSE "nil"} :
             /\ stream' = [s2 EXCEPT !.st = r.st,
                                     !.nread = IF r.read THEN @ + 1 ELSE @,
                                     !.rowsSinceFlush = IF flush THEN 0 ELSE rsf,
                                     !.pc = IF err # "nil" THEN "returned"
                                            ELSE IF r.done THEN "final" ELSE "rows"]
             /\ result' = IF err # "nil"
                          THEN [strategy |-> stream.strategy, err |-> err,
                                header |-> stream.header, rows |-> r.st.rows]
                          ELSE result
    /\ UNCHANGED <<file, b, index, pruneQ, sidecar, fileMeta, query, env, par, hdr>>

\* the write loop of the dispatcher of ParallelExecute over the rows it has
\* still to write, rowCount of them written: [s, err]
RECURSIVE writeRows(_, _, _)
writeRows(s, rows, rowCount) ==
    IF rows = << >> THEN [s |-> s, err |-> "nil"]
    ELSE LET s1 == writeRecord(s, Head(rows))
             s2 == IF (rowCount + 1) % defaultFlushEveryN = 0 THEN flushWriter(s1) ELSE s1
         IN IF s1.werr THEN [s |-> s1, err |-> "write row"]
            ELSE IF s2.werr THEN [s |-> s2, err |-> "flush rows"]
            ELSE writeRows(s2, Tail(rows), rowCount + 1)

\* ParallelExecute from the start of the goroutines to the label done: the
\* records are read and the rows written, flushed every defaultFlushEveryN
RunPipeline ==
    /\ stream.pc = "pipeline"
    /\ \E rows \in {parallelExecute(file, query).rows} :
       \E w \in {writeRows(stream, rows, 0)} :
          /\ stream' = [w.s EXCEPT !.st = [rows |-> rows],
                                   !.nread = Len(csvRecords(file, 1)),
                                   !.pc = IF w.err # "nil" THEN "returned" ELSE "final"]
          /\ result' = IF w.err # "nil"
                       THEN [strategy |-> stream.strategy, err |-> w.err,
                             header |-> stream.header, rows |-> rows]
                       ELSE result
    /\ UNCHANGED <<file, b, index, pruneQ, sidecar, fileMeta, query, env, par, hdr>>

\* the last writer.Flush() and the return: Execute and ParallelExecute test
\* writer.Error() after it, executeFromStdin defers the Flush and returns nil
FinalFlush ==
    /\ stream.pc = "final"
    /\ stream' = [flushWriter(stream) EXCEPT !.pc = "returned"]
    /\ result' = returned(IF stream.strategy = "stdin" \/ ~stream'.werr THEN "nil"
                          ELSE IF stream.strategy = "parallel" THEN "final flush"
                          ELSE "flush rows")
    /\ UNCHANGED <<file, b, index, pruneQ, sidecar, fileMeta, query, env, par, hdr>>

\* the index is built before the query starts
BuildBefore == Build /\ stream.pc = "idle"

StreamNext == BuildBefore \/ ReadHeader \/ WriteHeader \/ FlushHeader \/ ScanRow
              \/ RunPipeline \/ FinalFlush

StreamSpec == ExecInit /\ [][StreamNext]_vars

\* C15: in every strategy the output header is written and flushed to the
\* output before any data row is emitted, and the flush happens before the
\* first data row is read from the source.
C15_HeaderFlushedFirst ==
    stream.pc \in {"rows", "pipeline", "final", "returned"} =>
        /\ stream.out \o stream.buf # << >> => Head(stream.out \o stream.buf) = stream.header
        /\ stream.nread > 0 => (stream.out # << >> /\ Head(stream.out) = stream.header)

----------------------------------------------------------------------------
(* ColumnSpec: queries that name a column the source does not have *)

\* comparisons on the column v of the source and on a column w it lacks
KnownCmp == Comparison(ColV, "=", Str2)
UnknownCmp == Comparison(ColW, "=", Str2)

\* the unknown column in the projection, or in the predicate: alone, under
\* NOT, or on either side of AND and OR
ColumnQueries ==
    {[AllColumns |-> FALSE, Columns |-> cols, Where |-> NoWhere, Limit |-> -1] :
        cols \in {<<ColV>>, <<ColW>>, <<ColV, ColW>>}}
    \cup {[AllColumns |-> TRUE, Columns |-> << >>, Where |-> w, Limit |-> l] :
            w \in {KnownCmp, UnknownCmp, UnaryExpr("NOT", UnknownCmp)}
                  \cup {BinaryExpr(x, op, y) : x \in {KnownCmp, UnknownCmp},
                                               y \in {KnownCmp, UnknownCmp},
                                               op \in {"AND", "OR"}},
            l \in {-1, MaxLimit}}

\* the columns an expression names
RECURSIVE columnsOf(_)
columnsOf(e) ==
    CASE e.kind = "bin" -> columnsOf(e.Left) \cup columnsOf(e.Right)
      [] e.kind = "not" -> columnsOf(e.Expr)
      [] e.kind = "cmp" -> {e.Column}
      [] OTHER -> {}

RunColumnQuery == Run(ColumnQueries)

ColumnNext == Build \/ RunColumnQuery

ColumnSpec == ExecInit /\ [][ColumnNext]_vars

\* C16: if the projection or any comparison of the predicate names a column
\* that is not in the source header, Execute fails with an unknown-column
\* error in every strategy, stdin included.
C16_UnknownColumnFails ==
    LET named == {query.Columns[i] : i \in 1..Len(query.Columns)}
                 \cup columnsOf(query.Where)
        inHeader(c) == \E i \in 1..Len(Header) : ToLower(TrimSpace(Header[i])) = ToLower(c)
    IN (Ran /\ \E c \in named : ~inHeader(c)) => result.err = "unknown column"

----------------------------------------------------------------------------
(* CompareSpec: one comparison applied to one cell by both evaluators *)

\* "2.0"
Str2Dot0 == <<50, 46, 48>>
\* " 2": strconv.ParseFloat does not accept the space
StrSp2 == <<32, 50>>

CompareLiterals == Literals \cup {Str2Dot0}

Candidates == FieldValues \cup {DigitStr(1), DigitStr(3), Str2Dot0, StrSp2}

\* the Comparison case of evaluateExpressionDirect on the cell value
compareDirect(c, value) ==
    LET num == ParseFloat(value)
        sc == StrCmp(value, c.Value)
        nc == NumCmp(num, c.NumericValue)
    IN CASE c.Operator = "=" ->
               IF c.IsNumeric THEN num.ok /\ nc = 0 ELSE sc = 0
         [] c.Operator \in {"!=", "<>"} ->
               IF c.IsNumeric THEN ~num.ok \/ nc # 0 ELSE sc # 0
         [] c.Operator = ">" ->
               IF c.IsNumeric THEN num.ok /\ nc > 0 ELSE sc > 0
         [] c.Operator = ">=" ->
               IF c.IsNumeric THEN num.ok /\ nc >= 0 ELSE sc >= 0
         [] c.Operator = "<" ->
               IF c.IsNumeric THEN num.ok /\ nc < 0 ELSE sc < 0
         [] c.Operator = "<=" ->
               IF c.IsNumeric THEN num.ok /\ nc <= 0 ELSE sc <= 0
         [] OTHER -> FALSE

CompareInit ==
    /\ file = << >>
    /\ b = NewBuilder(1)
    /\ index = NoIndex
    /\ pruneQ = NoPrune
    /\ sidecar = NoSidecar
    /\ fileMeta = StatOf(file, 1)
    /\ query = NoQuery
    /\ env = NoEnv
    /\ result = NoResult
    /\ par = NoPar
    /\ stream = NoStream
    /\ hdr = Header

\* c.Compare(candidate), as Evaluate and EvaluateNormalized call it, and the
\* same comparison in evaluateExpressionDirect
CompareValue ==
    /\ result = NoResult
    /\ \E op \in Operators, lit \in CompareLiterals, cand \in Candidates :
          LET c == Comparison(ColV, op, lit) IN
          /\ query' = c
          /\ result' = [candidate |-> cand, holds |-> Compare(c, cand),
                        direct |-> compareDirect(c, cand)]
    /\ UNCHANGED <<file, b, index, pruneQ, sidecar, fileMeta, env, par, hdr, stream>>

CompareNext == CompareValue

CompareSpec == CompareInit /\ [][CompareNext]_vars

\* C17: a comparison with a numeric literal against a cell that does not
\* parse as a number is false for =, <, >, <=, >= and true for !=.
C17_UnparseableCell ==
    (Ran /\ query.IsNumeric /\ ~ParseFloat(result.candidate).ok) =>
        (result.holds <=> query.Operator = "!=")


----------------------------------------------------------------------------
(* NotNotSpec: the same query with the predicate P and with NOT NOT P      *)

NotNot(p) == UnaryExpr("NOT", UnaryExpr("NOT", p))

\* the predicates P: comparisons, a negation, a conjunction, a disjunction
NotNotPredicates ==
    {Comparison(ColV, op, Str10) : op \in Operators}
    \cup {Comparison(ColV, "=", StrA), Comparison(ColV, ">", EmptyStr)}
    \cup {UnaryExpr("NOT", Comparison(ColV, "=", Str2)),
          BinaryExpr(Comparison(ColV, "<", StrA), "AND", Comparison(ColV, ">", Str10)),
          BinaryExpr(Comparison(ColV, "=", Str2), "OR", Comparison(ColV, "<", StrA))}

\* SELECT * FROM f WHERE P [LIMIT 1]
NotNotQueries ==
    {[AllColumns |-> TRUE, Columns |-> << >>, Where |-> w, Limit |-> l] :
        w \in NotNotPredicates, l \in {-1, 1}}

\* engine.Execute(query, out), run twice on the same source in the same
\* environment: first WHERE P, then WHERE NOT NOT P
RunNotNot ==
    /\ IF result = NoResult THEN TRUE ELSE result.double = NoResult
    /\ \E q \in NotNotQueries, e \in Envs :
          LET first == result = NoResult
              which == IF first THEN "plain" ELSE "double"
          IN /\ first \/ (q = query /\ e = env)
             /\ query' = q
             /\ env' = e
             /\ result' =
                   [k \in {"plain", "double"} |->
                       IF k = which
                       THEN Execute(file, sidecar, fileMeta,
                                    [q EXCEPT !.Where = IF first THEN @ ELSE NotNot(@)], e)
                       ELSE IF first THEN NoResult ELSE result[k]]
    /\ UNCHANGED <<file, b, index, pruneQ, sidecar, fileMeta, par, hdr, stream>>

NotNotNext == Build \/ RunNotNot

NotNotSpec == ExecInit /\ [][NotNotNext]_vars

\* C18: for every predicate P, source file and strategy (with or without a
\* valid index), the query with NOT NOT P emits exactly the rows of the
\* query with P.
C18_NotNotSameRows ==
    (Ran /\ result.double # NoResult) =>
        (result.double.err = result.plain.err
         /\ result.double.rows = result.plain.rows)


\* C19: WriteIndex followed by ReadIndex of the written bytes returns an
\* Index identical to the original in every header field, the column
\* dictionary, the blocks and each per-column min, max and empty_count, in
\* particular for every Index returned by the Builder.
C19_RoundTrip ==
    (Ran /\ result.magic = Magic /\ result.version = result.written.Header.Version) =>
        (result.read.ok /\ result.read.idx = result.written)


----------------------------------------------------------------------------
(* RebuildSpec: a second BuildFromFile of the same Builder over the        *)
(* unchanged file                                                          *)

\* b.BuildFromFile(csvPath) called again on the Builder that built index
Rebuild ==
    /\ index # NoIndex
    /\ result = NoResult
    /\ b' = BuildFromFile(b, file)
    /\ index' = IF b'.panicked THEN index ELSE BuiltIndex(b', fileMeta)
    /\ sidecar' = IF b'.panicked THEN sidecar ELSE WrittenSidecar(index')
    /\ result' = [first |-> index, panicked |-> b'.panicked, second |-> index']
    /\ UNCHANGED <<file, pruneQ, fileMeta, query, env, par, hdr, stream>>

RebuildNext == Build \/ Rebuild

RebuildSpec == Init /\ [][RebuildNext]_vars

\* C20: building an index twice over an unchanged file with the same block
\* size and type-inference setting yields identical indexes (byte-identical
\* .sidx files), also for a Builder whose BuildFromFile has already
\* completed a build.
C20_RebuildIdentical ==
    Ran => (/\ ~result.panicked
            /\ result.second = result.first
            /\ WriteIndex(result.second) = WriteIndex(result.first))


----------------------------------------------------------------------------
(* Type inference of the Builder, under Spec *)

\* the records of the first block: the first blockSize non-blank lines
FirstBlockRows == SubSeq(DataRows(file), 1, Min2(b.blockSize, Len(DataRows(file))))

----------------------------------------------------------------------------
(* PruneSpec: the prune decision over predicate trees, on built indexes *)

\* comparisons on v, on V (another letter case) and on the absent column w
PruneComparisons ==
    Comparisons
    \cup {Comparison(ColUpV, op, Str10) : op \in Operators}
    \cup {Comparison(ColW, op, Str2) : op \in {"=", "<"}}

PruneLeaves ==
    {Comparison(ColV, "=", Str2), Comparison(ColV, "<", StrA),
     Comparison(ColV, ">", Str10), Comparison(ColW, "=", Str2)}

\* NOT, AND, OR over the leaves, and AND, OR with a negated or nested side
PruneTrees ==
    {UnaryExpr("NOT", c) : c \in PruneLeaves}
    \cup {BinaryExpr(c, op, d) : c \in PruneLeaves, d \in PruneLeaves, op \in {"AND", "OR"}}
    \cup {BinaryExpr(UnaryExpr("NOT", c), op, d) :
             c \in {Comparison(ColV, "=", Str2)}, d \in PruneLeaves, op \in {"AND", "OR"}}
    \cup {BinaryExpr(BinaryExpr(c, "OR", d), "AND", c) :
             c \in {Comparison(ColV, "<", StrA)}, d \in PruneLeaves}

PrunePredicates == PruneComparisons \cup PruneTrees

\* the pruning pass of Execute over every block of the index
PruneTree ==
    /\ index # NoIndex
    /\ ~pruneQ.asked
    /\ \E e \in PrunePredicates :
          pruneQ' = [asked |-> TRUE, expr |-> e,
                     pruned |-> pruneBlocksOf(index, [Where |-> e])]
    /\ UNCHANGED <<file, b, index, sidecar, fileMeta, query, env, result, par, hdr, stream>>

PruneNext == Build \/ PruneTree

PruneSpec == Init /\ [][PruneNext]_vars

C23_StopsWithinOneBatch == Started => par.lateSends <= 1


----------------------------------------------------------------------------
(* FairErrParSpec: ParallelExecute on one processor with an output that    *)
(* stops accepting rows (downstream closed)                                *)

\* the output fails at the write or flush that follows this many rows
OutFailures == {0, 1, 3}

ErrParInit ==
    /\ file \in ParFiles(MaxDrainRows)
    /\ b = NewBuilder(1)
    /\ index = NoIndex
    /\ pruneQ = NoPrune
    /\ sidecar = NoSidecar
    /\ fileMeta = StatOf(file, 1)
    /\ query = NoQuery
    /\ env \in {[GoEnv(1) EXCEPT !.outFailsAfter = k] : k \in OutFailures}
    /\ result = NoResult
    /\ par = NoPar
    /\ stream = NoStream
    /\ hdr = Header

\* the Go scheduler runs every goroutine that can take a step
FairErrParSpec ==
    /\ ErrParInit
    /\ [][ParNext]_vars
    /\ WF_vars(Reader)
    /\ WF_vars(WorkerStep(1))
    /\ WF_vars(Closer)
    /\ WF_vars(Dispatcher)

\* a write or flush of a row failed and ParallelExecute returned
WriteFailed == par.pc = "running" /\ par.dpc = "failed"

\* the reader and every worker have returned
TasksDone ==
    /\ par.pc = "running"
    /\ par.rpc = "done"
    /\ \A w \in 1..par.workers : par.w[w].pc = "done"

\* C24: in parallel mode, when writing or flushing a row fails,
\* ParallelExecute returns that error, and the reader and every worker
\* eventually terminate: none stays blocked forever on a channel send.
C24_FailureStopsTasks ==
    /\ [](WriteFailed => result.err = "write row")
    /\ (WriteFailed ~> TasksDone)


\* the row batches held in memory: in the batch channel, inside the workers,
\* in the result channel and in the dispatcher's reorder map
BatchesHeld ==
    Len(par.batches)
    + Cardinality({w \in 1..par.workers : par.w[w].pc = "send"})
    + Len(par.results)
    + Cardinality(DOMAIN par.resultMap)

\* C25: in parallel mode the number of row batches held in memory at any
\* moment is bounded by a constant that depends only on the number of workers
\* M, 2*M batches, however many batches the file contains and however slowly
\* any one worker runs.
C25_BatchesBounded == par.pc = "running" => BatchesHeld <= 2 * par.workers


----------------------------------------------------------------------------
(* HeaderSpec: the header line of the output, for projections written in   *)
(* either letter case                                                      *)

\* SELECT *, SELECT v, SELECT V, SELECT v, id and SELECT V, id
HeaderQueries ==
    {[AllColumns |-> TRUE, Columns |-> << >>, Where |-> NoWhere, Limit |-> l] :
        l \in {-1, 1}}
    \cup {[AllColumns |-> FALSE, Columns |-> cols, Where |-> w, Limit |-> l] :
             cols \in {<<ColV>>, <<ColUpV>>, <<ColV, ColId>>, <<ColUpV, ColId>>},
             w \in {NoWhere, Comparison(ColV, "=", Str2)},
             l \in {-1, 1}}

RunHeaderQuery == Run(HeaderQueries)

HeaderNext == Build \/ RunHeaderQuery

HeaderSpec == ExecInit /\ [][HeaderNext]_vars

\* C26: the first output line is the original (un-normalized) header text of
\* the projected columns, in projection order (full header order for '*'),
\* in every strategy including stdin mode, whatever letter case the query
\* uses for the column names.
C26_OriginalHeaderText ==
    (Ran /\ result.err = "nil") =>
        IF query.AllColumns THEN result.header = Header
        ELSE /\ Len(result.header) = Len(query.Columns)
             /\ \A i \in 1..Len(query.Columns) :
                   /\ result.header[i] \in {Header[j] : j \in 1..Len(Header)}
                   /\ ToLower(TrimSpace(result.header[i])) = ToLower(query.Columns[i])


----------------------------------------------------------------------------
(* CaseSpec: predicates that name the column v in either letter case *)

\* v = 2 and V = 2, plain, negated and under AND and OR
CasePredicates ==
    LET leaves == {Comparison(c, "=", Str2) : c \in {ColV, ColUpV}}
    IN leaves
       \cup {UnaryExpr("NOT", p) : p \in leaves}
       \cup {BinaryExpr(p, op, Comparison(ColV, "<", StrA)) :
                p \in leaves, op \in {"AND", "OR"}}

CaseQueries ==
    {[AllColumns |-> TRUE, Columns |-> << >>, Where |-> w, Limit |-> l] :
        w \in CasePredicates, l \in {-1, 1}}

RunCaseQuery == Run(CaseQueries)

CaseNext == Build \/ RunCaseQuery

CaseSpec == ExecInit /\ [][CaseNext]_vars

\* C27: for the same input bytes and the same query, stdin mode emits the
\* same data rows as the sequential file scanner, whatever letter case the
\* query uses for a predicate column and whether the predicate tree nodes are
\* AND, OR or NOT.
C27_StdinEqualsSequential ==
    (Ran /\ env.stdin) =>
        (result.err = "nil" /\ result.rows = SequentialRows(file, query))


----------------------------------------------------------------------------
(* FairNoLimitSpec: ParallelExecute without LIMIT on one or several        *)
(* processors, every goroutine scheduled fairly                            *)

\* the largest number of data rows of a file scanned without LIMIT
MaxNoLimitRows == 6

NoLimitQueries == {q \in ParQueries : q.Limit < 0}

StartNoLimit == StartOf(NoLimitQueries)

NoLimitNext == StartNoLimit \/ Reader \/ Worker \/ Closer \/ Dispatcher

\* the Go scheduler runs every goroutine that can take a step
FairNoLimitSpec ==
    /\ ParInitWith(MaxWorkers, MaxNoLimitRows)
    /\ [][NoLimitNext]_vars
    /\ WF_vars(Reader)
    /\ \A w \in 1..MaxWorkers : WF_vars(WorkerStep(w))
    /\ WF_vars(Closer)
    /\ WF_vars(Dispatcher)

\* the number of batches the reader sends for the file
NumBatches == (Len(csvRecords(file, 1)) + batchSize - 1) \div batchSize

\* C28: in parallel mode without LIMIT and without I/O errors, for every
\* number of workers, every number of batches and every fair interleaving,
\* ParallelExecute terminates returning nil; every batch sent by the reader
\* is processed by exactly one worker and its result is written exactly once;
\* and the reader, all workers and the result-channel closer have exited by
\* then.
C28_NoLimitTerminates ==
    /\ (par.pc = "running" ~> ReturnedNil)
    /\ [](par.pc = "returned" =>
            /\ result.err = "nil"
            /\ par.wrote = [i \in 1..NumBatches |-> i - 1]
            /\ par.out = SourceOrderRows
            /\ par.batches = << >> /\ par.results = << >> /\ DOMAIN par.resultMap = {}
            /\ par.rpc = "done"
            /\ \A w \in 1..par.workers : par.w[w].pc = "done"
            /\ par.resultsClosed)

\* ParallelExecute has returned nil with two workers after three batches
C28_Witness ==
    /\ ReturnedNil
    /\ par.workers = 2
    /\ Len(par.wrote) = 3
    /\ Len(par.out) >= 4

----------------------------------------------------------------------------
(* ScanSpec: the row loop of Execute over an index, step by step, on files *)
(* of up to MaxRows lines so that pruned blocks lie before, between and    *)
(* after the blocks that are read.                                         *)

ScanPredicates ==
    {Comparison(ColV, "=", Str2), Comparison(ColV, "<", Str10),
     BinaryExpr(Comparison(ColV, "=", Str2), "OR", Comparison(ColV, "=", StrA))}

ScanQueries ==
    {[AllColumns |-> TRUE, Columns |-> << >>, Where |-> w, Limit |-> l] :
        w \in ScanPredicates, l \in {-1, 1}}

\* Execute on a file path with SIDX_NO_PARALLEL=1
ReadScanHeader ==
    ReadHeaderOf(ScanQueries, {[stdin |-> FALSE, noParallel |-> TRUE]}, {-1})

ScanInit ==
    /\ file \in Files
    /\ b \in {SetSkipTypeInference(NewBuilder(bs), skip) :
                 bs \in 1..MaxBlockSize, skip \in BOOLEAN}
    /\ index = NoIndex
    /\ pruneQ = NoPrune
    /\ sidecar = NoSidecar
    /\ fileMeta = StatOf(file, 1)
    /\ query = NoQuery
    /\ env = NoEnv
    /\ result = NoResult
    /\ par = NoPar
    /\ stream = NoStream
    /\ hdr = Header

ScanNext == BuildBefore \/ ReadScanHeader \/ WriteHeader \/ FlushHeader \/ ScanRow
            \/ FinalFlush

ScanSpec == ScanInit /\ [][ScanNext]_vars

\* the run is in the row loop of the indexed scanner, or past it
IndexedScan ==
    /\ stream.pc \in {"rows", "final", "returned"}
    /\ stream.strategy = "indexed"
    /\ query.Where # NoWhere

\* the absolute source index (0-based) of the record on line n of the file:
\* the records before it, blank lines not being records
SourceIndex(n) == Cardinality({i \in 1..(n - 1) : file[i] # << >>})

\* the source indices of the rows of the blocks that are not pruned
UnprunedRows ==
    LET pruned == pruneBlocksOf(stream.idx, query)
    IN {r \in 0..(Len(file) - 1) :
           \E k \in 1..Len(stream.idx.Blocks) :
               /\ (k - 1) \notin pruned
               /\ stream.idx.Blocks[k].StartRow <= r
               /\ r < stream.idx.Blocks[k].EndRow}

\* C29: in indexed mode with a predicate, whenever a row is parsed the running
\* row counter equals the absolute source index of that row and the row
\* belongs to a block that is not pruned; the rows parsed are exactly the rows
\* of the non-pruned blocks in ascending order (all of them unless LIMIT ends
\* the loop), and only the header is emitted when every block is pruned.
C29_ScansUnprunedBlocks ==
    /\ [][(IndexedScan /\ stream.pc = "rows" /\ stream'.nread = stream.nread + 1) =>
            LET i == SourceIndex(stream'.st.pos - 1)
            IN /\ stream'.st.currentRow - 1 = i
               /\ i \in UnprunedRows
               /\ Cardinality({r \in UnprunedRows : r < i}) = stream.nread]_vars
    /\ [](IndexedScan /\ stream.pc \in {"final", "returned"} =>
            /\ (query.Limit < 0 \/ stream.st.written < query.Limit) =>
                   stream.nread = Cardinality(UnprunedRows)
            /\ UnprunedRows = {} => stream.st.rows = << >>
            /\ (UnprunedRows = {} /\ stream.pc = "returned") =>
                   stream.out = <<stream.header>>)

\* an indexed run that returned after it read a row of a block that lies
\* behind a pruned block, with a pruned block left unread behind it
C29_Witness ==
    /\ IndexedScan
    /\ stream.pc = "returned"
    /\ stream.nread > 0
    /\ LET pruned == pruneBlocksOf(stream.idx, query)
       IN \E k, j, l \in 0..(Len(stream.idx.Blocks) - 1) :
             k < j /\ j < l /\ k \in pruned /\ j \notin pruned /\ l \in pruned

----------------------------------------------------------------------------
(* OutSpec: Execute, step by step, on an output that fails after it took a *)
(* number of records.                                                      *)

\* the records the output takes before it fails; -1: it never fails
OutputLimits == (-1)..(MaxExecRows + 1)

ReadOutHeader == ReadHeaderOf(StreamQueries, Envs, OutputLimits)

OutNext == BuildBefore \/ ReadOutHeader \/ WriteHeader \/ FlushHeader \/ ScanRow
           \/ RunPipeline \/ FinalFlush

OutSpec == ExecInit /\ [][OutNext]_vars

\* C30: in every strategy Execute returns nil only if the header and every
\* emitted row were written and flushed to the output without error; a write
\* or flush failure, the one of the final flush included, is returned.
C30_NilOnlyIfFlushed ==
    (stream.pc = "returned" /\ result.err = "nil") =>
        /\ ~stream.werr
        /\ stream.out = <<stream.header>> \o result.rows

====
